---- MODULE Spec2Model ----
(***************************************************************************)
(* Order execution engine of django-quant-ohlc-engine.                     *)
(*                                                                         *)
(* The module models OrderService.place_order                              *)
(* (src/trading/services/order_service.py) as a state machine whose steps  *)
(* are separated at the broker calls: position(), placeOrder(),            *)
(* orderBook().  The broker is the environment: each call draws its        *)
(* response from a small set of response shapes the SmartAPI client can    *)
(* hand back (exception, failure dict, success dict, bare string).         *)
(*                                                                         *)
(* TradingEngine.run (src/trading/engine/trading_engine.py) with the signal *)
(* pipeline run_ema_pipeline (src/trading/engine/ema_pipeline.py) is the   *)
(* cycle that leads to place_order; BatchTradingEngine                     *)
(* (src/trading/engine/batch_engine.py) is modelled as one step.  Each has *)
(* its own specification: Spec drives the order service directly,          *)
(* PipelineSpec applies the signal pipeline to candle series, EngineSpec   *)
(* runs whole cycles through engine_run_api, BatchSpec runs the batch.     *)
(*                                                                         *)
(* Python None is the string Null; a dict is a record with a fixed set of  *)
(* fields, a missing key being Null / FALSE.                               *)
(***************************************************************************)
EXTENDS Integers, Sequences, FiniteSets, TLC

\* ------------------------------------------------------------------------
\* Bounds of the model
\* ------------------------------------------------------------------------
MaxPositions == 2
MaxOrders == 2
MaxQty == 1
MaxCandles == 7
MaxDiffs == 4
MaxCycleCandles == 3
MaxDelay == 2
MaxStocks == 3
MaxRawCandles == 3
MaxFills == 3
MaxPending == 1

\* ------------------------------------------------------------------------
\* Value sets
\* ------------------------------------------------------------------------
Null == "null"

Symbols == {"SBIN-EQ", "RELIANCE-EQ"}

\* StockConfig.symbol_token of each configured stock.
symbol_token_of(trading_symbol) ==
    IF trading_symbol = "RELIANCE-EQ" THEN "2885" ELSE "3045"

Signals == {"BUY", "SELL", "NONE"}

Quantities == 0..MaxQty

\* Last closes handed to place_order (whole-number prices).
LastPrices == {2, 100}

OrderIds == {"ORD1", "ORD2"}

OrderStatuses == {"COMPLETE", "rejected", "open"}

BrokerMessages == {Null, "RMS:Insufficient funds"}

ExceptionMessages == {"Read timed out", "Connection reset"}

NetQtys == {-1, 0, 1}

SeqUpTo(S, n) == UNION {[1..k -> S] : k \in 0..n}

\* TradeState row: symbol is the key, position and last_signal default to
\* "NONE"; exists = FALSE is a symbol with no row yet.
NoRow == [exists |-> FALSE, position |-> "NONE", last_signal |-> "NONE"]

NewRow == [exists |-> TRUE, position |-> "NONE", last_signal |-> "NONE"]

\* smart.position(): raises, or returns a dict {status, data}.
PositionEntries == [tradingsymbol : Symbols, netqty : NetQtys]

PositionResponsesUpTo(n) ==
    {[kind |-> "raise", status |-> FALSE, data |-> << >>, exc |-> m] :
        m \in ExceptionMessages}
    \cup {[kind |-> "dict", status |-> FALSE, data |-> << >>, exc |-> Null]}
    \cup {[kind |-> "dict", status |-> TRUE, data |-> d, exc |-> Null] :
            d \in SeqUpTo(PositionEntries, n)}

PositionResponses == PositionResponsesUpTo(MaxPositions)

\* smart.placeOrder(): raises, returns a bare string (the order id, possibly
\* empty), a dict {status, message, data}, or something that is neither
\* (None).
PlaceResponses ==
    {[kind |-> "raise", status |-> FALSE, message |-> Null, data |-> Null,
      exc |-> m] : m \in ExceptionMessages}
    \cup {[kind |-> "str", status |-> FALSE, message |-> Null, data |-> s,
           exc |-> Null] : s \in OrderIds \cup {""}}
    \cup {[kind |-> "dict", status |-> st, message |-> msg, data |-> d,
           exc |-> Null] :
            st \in BOOLEAN, msg \in BrokerMessages, d \in OrderIds \cup {Null}}
    \cup {[kind |-> "none", status |-> FALSE, message |-> Null, data |-> Null,
           exc |-> Null]}

\* smart.orderBook(): raises (the call itself, or the walk over a response
\* that is not a dict with an iterable "data"), or returns {status, data}.
OrderBookEntries == [orderid : OrderIds, orderstatus : OrderStatuses]

NoMatch == [orderid |-> Null, orderstatus |-> Null]

\* place_response before placeOrder has answered.
NoResponse ==
    [kind |-> "unset", status |-> FALSE, message |-> Null, data |-> Null,
     exc |-> Null]

OrderBookResponsesUpTo(n) ==
    {[kind |-> "raise", status |-> FALSE, data |-> << >>, exc |-> m] :
        m \in ExceptionMessages}
    \cup {[kind |-> "dict", status |-> st, data |-> d, exc |-> Null] :
            st \in BOOLEAN, d \in SeqUpTo(OrderBookEntries, n)}

OrderBookResponses == OrderBookResponsesUpTo(MaxOrders)

\* ------------------------------------------------------------------------
\* State
\* ------------------------------------------------------------------------
VARIABLES
    trade_state,        \* TradeState table: symbol -> row
    live_enabled,       \* settings.LIVE_TRADING_ENABLED
    pc,                 \* position inside place_order
    args,               \* arguments of the running place_order call
    current_position,   \* local current_position (Null before it is read)
    sync_trade_state,   \* row object _sync_position holds before its save()
    orderparams,        \* local orderparams
    place_response,     \* local place_response
    order_id,           \* local order_id
    result,             \* dict returned by place_order
    hist,               \* history of the running cycle (observations only)
    force_signal,       \* settings.FORCE_SIGNAL
    pipeline,           \* one application of run_ema_pipeline
    engine,             \* the running TradingEngine.run cycle
    batch,              \* the running BatchTradingEngine
    rival,              \* a second place_order call, in flight at the same time
    broker              \* the broker's own books: holding and orders

\* The variables outside the order service.
ext_vars == <<force_signal, pipeline, engine, batch, rival, broker>>

vars == <<trade_state, live_enabled, pc, args, current_position,
          sync_trade_state, orderparams, place_response, order_id, result,
          hist, force_signal, pipeline, engine, batch, rival, broker>>

\* ------------------------------------------------------------------------
\* Pure helpers
\* ------------------------------------------------------------------------
Digits == <<"0", "1", "2", "3", "4", "5", "6", "7", "8", "9">>

\* str(n) of a natural number.
RECURSIVE str(_)
str(n) ==
    IF n < 10 THEN Digits[n + 1]
    ELSE str(n \div 10) \o Digits[(n % 10) + 1]

\* str(round(last_price * 1.20, 2)) for a whole-number last_price: the
\* product has one decimal digit, which Python prints even when it is 0
\* ("120.0", "2.4").
price_str(last_price) ==
    str((12 * last_price) \div 10) \o "." \o str((12 * last_price) % 10)

\* TradeState.objects.get_or_create(symbol=...): the table afterwards.
get_or_create(table, symbol) ==
    IF table[symbol].exists THEN table
    ELSE [table EXCEPT ![symbol] = NewRow]

\* Variant of broker_position in which the last entry of the symbol decides
\* (broker_position = "LONG" if net_qty > 0 else "NONE").
RECURSIVE broker_position_last_wins(_, _)
broker_position_last_wins(positions, trading_symbol) ==
    IF positions = << >> THEN "NONE"
    ELSE LET pos == positions[Len(positions)]
             before == broker_position_last_wins(
                          SubSeq(positions, 1, Len(positions) - 1), trading_symbol)
         IN IF pos.tradingsymbol = trading_symbol
            THEN (IF pos.netqty > 0 THEN "LONG" ELSE "NONE")
            ELSE before

\* Variant of broker_position that reports a negative net quantity of the
\* symbol as a SHORT position.
RECURSIVE broker_position_short(_, _)
broker_position_short(positions, trading_symbol) ==
    IF positions = << >> THEN "NONE"
    ELSE LET pos == positions[Len(positions)]
             before == broker_position_short(
                          SubSeq(positions, 1, Len(positions) - 1), trading_symbol)
         IN IF pos.tradingsymbol = trading_symbol /\ pos.netqty > 0
            THEN "LONG"
            ELSE IF pos.tradingsymbol = trading_symbol /\ pos.netqty < 0
                    /\ before = "NONE"
            THEN "SHORT"
            ELSE before

\* The loop of _sync_position over the broker's positions: LONG as soon as
\* one entry of the trading symbol has a positive net quantity.
RECURSIVE broker_position(_, _)
broker_position(positions, trading_symbol) ==
    IF positions = << >> THEN "NONE"
    ELSE LET pos == positions[Len(positions)]
             before == broker_position(SubSeq(positions, 1, Len(positions) - 1),
                                       trading_symbol)
         IN IF pos.tradingsymbol = trading_symbol /\ pos.netqty > 0
            THEN "LONG"
            ELSE before

\* Variant of sync_table that only ever raises the ledger to LONG.
sync_table_only_long(table, trading_symbol, resp) ==
    IF resp.kind = "raise" THEN table
    ELSE IF ~resp.status THEN table
    ELSE LET bp == broker_position(resp.data, trading_symbol)
             t1 == get_or_create(table, trading_symbol)
         IN IF bp = "LONG"
            THEN [t1 EXCEPT ![trading_symbol].position = bp]
            ELSE t1

\* _sync_position: the TradeState table after the call, given the response
\* of smart.position().  An exception and a failure status both leave the
\* table as it is (the method logs and returns).
sync_table(table, trading_symbol, resp) ==
    IF resp.kind = "raise" THEN table
    ELSE IF ~resp.status THEN table
    ELSE LET bp == broker_position(resp.data, trading_symbol)
             t1 == get_or_create(table, trading_symbol)
         IN IF t1[trading_symbol].position # bp
            THEN [t1 EXCEPT ![trading_symbol].position = bp]
            ELSE t1

\* _sync_position from the answer of position() to the comparison with the
\* ledger: whether the call succeeded, the table after get_or_create, and
\* the row object the method then holds, with the broker's position set
\* when the two differ (dirty: save() will follow).
sync_read(table, trading_symbol, resp) ==
    LET ok == resp.kind # "raise" /\ resp.status
        bp == broker_position(resp.data, trading_symbol)
        t1 == get_or_create(table, trading_symbol)
        dirty == ok /\ t1[trading_symbol].position # bp
    IN [table |-> IF ok THEN t1 ELSE table,
        dirty |-> dirty,
        object |-> IF dirty THEN [t1[trading_symbol] EXCEPT !.position = bp]
                   ELSE NoRow]

\* trade_state.save(): the row of the table becomes the object, every
\* column of it, whatever the row holds by then.
save(table, trading_symbol, object) ==
    [table EXCEPT ![trading_symbol] = object]

\* Variant of invalid_quantity that lets a quantity of 0 through.
invalid_quantity_negative_only(quantity) == quantity < 0

\* if quantity <= 0
invalid_quantity(quantity) == quantity <= 0

\* Variant of safety_block that never blocks.
safety_block_never(signal, position) == Null

\* Variant of safety_block without the no-position-to-close test.
safety_block_buy_only(signal, position) ==
    IF signal = "BUY" /\ position = "LONG" THEN "Already LONG"
    ELSE Null

\* Variant of safety_block without the already-long test.
safety_block_sell_only(signal, position) ==
    IF signal = "SELL" /\ position = "NONE" THEN "No position to close"
    ELSE Null

\* The duplicate-direction checks of place_order: the reason of the block,
\* or Null when the order may go on.
safety_block(signal, position) ==
    IF signal = "BUY" /\ position = "LONG" THEN "Already LONG"
    ELSE IF signal = "SELL" /\ position = "NONE" THEN "No position to close"
    ELSE Null

\* _check_margin(required_amount), given the response of smart.rmsLimit():
\* False when the call raises or reports failure, else whether the
\* available cash covers the amount.  The method is defined by the service
\* and called from nowhere: place_order never asks for it, so no action
\* below applies it and "rmsLimit" never enters the calls of place_order
\* (the view asks rmsLimit itself, after run has returned, for display).
check_margin(rms, required_amount) ==
    IF rms.kind = "raise" THEN FALSE
    ELSE IF ~rms.status THEN FALSE
    ELSE rms.availablecash >= required_amount

NoParams ==
    [variety |-> Null, tradingsymbol |-> Null, symboltoken |-> Null,
     transactiontype |-> Null, exchange |-> Null, ordertype |-> Null,
     producttype |-> Null, duration |-> Null, price |-> Null,
     squareoff |-> Null, stoploss |-> Null, quantity |-> Null]

\* The order payload.
build_orderparams(a) ==
    [variety |-> "NORMAL", tradingsymbol |-> a.trading_symbol,
     symboltoken |-> a.symbol_token, transactiontype |-> a.signal,
     exchange |-> a.exchange, ordertype |-> "MARKET",
     producttype |-> "DELIVERY", duration |-> "DAY",
     price |-> price_str(a.last_price), squareoff |-> "0",
     stoploss |-> "0", quantity |-> str(a.quantity)]

\* Variant of mode_gate that tests the kill switch before dry_run.
mode_gate_switch_first(dry_run, live) ==
    IF ~live THEN "DISABLED"
    ELSE IF dry_run THEN "DRY_RUN"
    ELSE "SUBMIT"

\* Variant of mode_gate without the kill switch.
mode_gate_no_kill_switch(dry_run, live) ==
    IF dry_run THEN "DRY_RUN" ELSE "SUBMIT"

\* Variant of mode_gate that never looks at dry_run.
mode_gate_no_dry_run(dry_run, live) ==
    IF ~live THEN "DISABLED" ELSE "SUBMIT"

\* Dry-run test, then the kill switch: what place_order does once the
\* payload is built.
mode_gate(dry_run, live) ==
    IF dry_run THEN "DRY_RUN"
    ELSE IF ~live THEN "DISABLED"
    ELSE "SUBMIT"

\* Extraction of the order id from the response of placeOrder: the id, or
\* Null when the response carries none.  rejected is the explicit failure
\* flag of a dict response.
\* Variant of place_rejected that never looks at the failure flag.
place_rejected_never(resp) == FALSE

place_rejected(resp) == resp.kind = "dict" /\ ~resp.status

extract_order_id(resp) ==
    IF resp.kind = "str" THEN resp.data
    ELSE IF resp.kind = "dict" THEN resp.data
    ELSE Null

\* Python truthiness of an order id.
truthy(v) == v # Null /\ v # ""

\* The walk over the order book: the first entry whose orderid is the
\* submitted one, when the book reports success; NoMatch otherwise.
RECURSIVE first_match(_, _)
first_match(book, id) ==
    IF book = << >> THEN NoMatch
    ELSE IF Head(book).orderid = id THEN Head(book)
    ELSE first_match(Tail(book), id)

\* Variant of match_order that walks the book whatever its status flag.
match_order_any_status(order_book, id) == first_match(order_book.data, id)

match_order(order_book, id) ==
    IF order_book.status THEN first_match(order_book.data, id) ELSE NoMatch

poll_status(order_book, id) ==
    IF match_order(order_book, id) = NoMatch THEN "UNKNOWN"
    ELSE match_order(order_book, id).orderstatus

\* Variant of complete_table that writes the position whatever the status
\* (the table is updated as soon as an order id came back).
complete_table_always(table, trading_symbol, signal, final_status) ==
    [table EXCEPT ![trading_symbol] =
        [exists |-> TRUE,
         position |-> IF signal = "BUY" THEN "LONG" ELSE "NONE",
         last_signal |-> signal]]

\* The TradeState table after the poll: written only for COMPLETE.  The
\* row object was read before the submission, so the write goes to that row.
complete_table(table, trading_symbol, signal, final_status) ==
    IF final_status = "COMPLETE"
    THEN [table EXCEPT ![trading_symbol] =
            [exists |-> TRUE,
             position |-> IF signal = "BUY" THEN "LONG" ELSE "NONE",
             last_signal |-> signal]]
    ELSE table

\* Result dicts.  Every result has the same fields; a key the code does not
\* set is Null.
NoResult ==
    [status |-> Null, reason |-> Null, error |-> Null, order_id |-> Null,
     payload |-> NoParams, raw_place_response |-> NoResponse,
     matched_order |-> NoMatch]

reason_result(status, reason) == [NoResult EXCEPT !.status = status, !.reason = reason]

dry_run_result(params) == [NoResult EXCEPT !.status = "DRY_RUN", !.payload = params]

rejected_result(error, resp) ==
    [NoResult EXCEPT !.status = "FAILED", !.error = error,
                     !.raw_place_response = resp]

exception_result(message) ==
    [NoResult EXCEPT !.status = "ERROR", !.error = message]

final_result(final_status, id, params, resp, matched) ==
    [NoResult EXCEPT !.status = final_status, !.order_id = id,
                     !.payload = params, !.raw_place_response = resp,
                     !.matched_order = matched]

\* ------------------------------------------------------------------------
\* Signal pipeline: fetch_recent_candles, ohlc_to_dataframe, run_ema_pipeline
\* ------------------------------------------------------------------------
\* Close prices of the candles (whole numbers).
Closes == {10, 20}

\* EMA spans of a StrategyConfig row, <<short_span, long_span>>.  The model
\* fields are plain IntegerFields: a row may hold a short span that is not
\* below the long one.
Windows == {<<2, 4>>, <<4, 2>>}

\* StrategyConfig rows: EMA spans, number of candles to fetch, validity of
\* a signal in minutes.
Strategies ==
    {[short_span |-> w[1], long_span |-> w[2], candle_count |-> c,
      signal_validity_minutes |-> v] :
        w \in Windows, c \in {1, 100}, v \in {1, 2}}

ForceSignals == {Null, "BUY", "SELL"}

\* A candle is [timestamp, open, high, low, close, volume]; the model keeps
\* the timestamp (in minutes) and the close.  The broker lists the candles
\* of consecutive minutes, oldest first.
candles_of(closes) ==
    [i \in 1..Len(closes) |-> [timestamp |-> i, close |-> closes[i]]]

\* smart.getCandleData(): raises, or returns a dict {status, data}.
CandleResponsesUpTo(n) ==
    {[kind |-> "raise", status |-> FALSE, data |-> << >>, exc |-> m] :
        m \in ExceptionMessages}
    \cup {[kind |-> "dict", status |-> FALSE, data |-> << >>, exc |-> Null]}
    \cup {[kind |-> "dict", status |-> TRUE, data |-> candles_of(c), exc |-> Null] :
            c \in SeqUpTo(Closes, n)}

CandleResponses == CandleResponsesUpTo(MaxCandles)

\* data[-n:] of a list.
last_n(data, n) ==
    IF n = 0 \/ n >= Len(data) THEN data
    ELSE SubSeq(data, Len(data) - n + 1, Len(data))

\* AngelOneService.fetch_recent_candles: the candles, or the exception it
\* raises (every failure is re-raised as "Candle Fetch Error: ...").
fetch_recent_candles(resp, n) ==
    IF resp.kind = "raise"
    THEN [kind |-> "raise", data |-> << >>,
          exc |-> "Candle Fetch Error: " \o resp.exc]
    ELSE IF ~resp.status
    THEN [kind |-> "raise", data |-> << >>,
          exc |-> "Candle Fetch Error: Candle fetch failed"]
    ELSE IF resp.data = << >>
    THEN [kind |-> "raise", data |-> << >>,
          exc |-> "Candle Fetch Error: Empty candle data received"]
    ELSE [kind |-> "ok", data |-> last_n(resp.data, n), exc |-> Null]

\* df.sort_index(): the rows in ascending order of timestamp (insertion of
\* each row after the rows that are not later than it).
RECURSIVE insert_row(_, _)
insert_row(rows, row) ==
    IF rows = << >> THEN <<row>>
    ELSE IF rows[Len(rows)].timestamp <= row.timestamp THEN Append(rows, row)
    ELSE Append(insert_row(SubSeq(rows, 1, Len(rows) - 1), row), rows[Len(rows)])

RECURSIVE sort_index(_)
sort_index(rows) ==
    IF rows = << >> THEN << >>
    ELSE insert_row(sort_index(SubSeq(rows, 1, Len(rows) - 1)), rows[Len(rows)])

ohlc_to_dataframe(ohlc_list) == sort_index(ohlc_list)

\* Raw candle lists as a broker could send them: timestamps in any order,
\* the same timestamp more than once.
RawCandles == [timestamp : 1..MaxRawCandles, close : Closes]

RawLists == SeqUpTo(RawCandles, MaxRawCandles) \ {<< >>}

\* The frames df.sort_index(inplace=True) can leave for a raw list: the
\* rows of the list in ascending order of timestamp.  sort_index sorts with
\* an unstable sort, so rows that share a timestamp come in either order;
\* for distinct timestamps the only such frame is ohlc_to_dataframe.
sorted_frames(ohlc_list) ==
    LET rows == {ohlc_list[i] : i \in 1..Len(ohlc_list)}
        times(row, seq) == Cardinality({i \in 1..Len(seq) : seq[i] = row})
    IN {df \in [1..Len(ohlc_list) -> rows] :
            /\ \A row \in rows : times(row, df) = times(row, ohlc_list)
            /\ \A i \in 1..(Len(df) - 1) :
                    df[i].timestamp <= df[i + 1].timestamp}

\* Comparison of the fractions a/b and c/d (a, c >= 0 and b, d > 0): -1, 0
\* or 1.  The whole parts are compared first, then the remainders, so that
\* no product of the two denominators is formed.
RECURSIVE cmp_frac(_, _, _, _)
cmp_frac(a, b, c, d) ==
    LET qa == a \div b
        qc == c \div d
        ra == a % b
        rc == c % d
    IN IF qa < qc THEN -1
       ELSE IF qa > qc THEN 1
       ELSE IF ra = 0 /\ rc = 0 THEN 0
       ELSE IF ra = 0 THEN -1
       ELSE IF rc = 0 THEN 1
       ELSE cmp_frac(d, rc, b, ra)

\* df["close"].ewm(span=span, adjust=False).mean() at row t, as the exact
\* fraction [n, d]: y[1] = close[1], y[t] = ((span-1) y[t-1] + 2 close[t]) /
\* (span+1).
RECURSIVE ewm_mean(_, _, _)
ewm_mean(df, span, t) ==
    IF t = 1 THEN [n |-> df[1].close, d |-> 1]
    ELSE LET y == ewm_mean(df, span, t - 1)
         IN [n |-> (span - 1) * y.n + 2 * df[t].close * y.d,
             d |-> (span + 1) * y.d]

\* Sign of df["diff"] = ema_short - ema_long at row t.
diff_sign(df, short_span, long_span, t) ==
    LET s == ewm_mean(df, short_span, t)
        l == ewm_mean(df, long_span, t)
    IN cmp_frac(s.n, s.d, l.n, l.d)

\* df["diff"]: the column of the signs of the diff.
diff_column(df, short_span, long_span) ==
    [t \in 1..Len(df) |-> diff_sign(df, short_span, long_span, t)]

\* Variant of crossover with strict comparisons on both sides (a diff of 0
\* on the row before hides the crossing).
crossover_strict(diff, t) ==
    /\ t > 1
    /\ \/ diff[t] > 0 /\ diff[t - 1] < 0
       \/ diff[t] < 0 /\ diff[t - 1] > 0

\* Variant of crossover that takes 0 as the diff before the first row
\* (shift(1) filled with 0 instead of NaN).
crossover_fill_zero(diff, t) ==
    LET prev == IF t = 1 THEN 0 ELSE diff[t - 1]
    IN \/ diff[t] > 0 /\ prev <= 0
       \/ diff[t] < 0 /\ prev >= 0

\* Variant of crossover that also flags a row whose diff is 0 after a row
\* whose diff was not.
crossover_any_sign_change(diff, t) ==
    /\ t > 1
    /\ \/ diff[t] > 0 /\ diff[t - 1] <= 0
       \/ diff[t] < 0 /\ diff[t - 1] >= 0
       \/ diff[t] = 0 /\ diff[t - 1] # 0

\* df["crossover"] at row t: the diff is positive and the diff of the row
\* before it was not, or negative and the one before was not.  The first row
\* has no row before it (shift(1) is NaN, every comparison is False).
crossover(diff, t) ==
    /\ t > 1
    /\ \/ diff[t] > 0 /\ diff[t - 1] <= 0
       \/ diff[t] < 0 /\ diff[t - 1] >= 0

crossover_column(diff) == [t \in 1..Len(diff) |-> crossover(diff, t)]

\* Row of the last crossover of the frame (crossover_rows.index[-1]), 0
\* when no row is flagged.
last_crossover_row(flags) ==
    LET rows == {t \in 1..Len(flags) : flags[t]}
    IN IF rows = {} THEN 0
       ELSE CHOOSE t \in rows : \A u \in rows : u <= t

\* The strict signal rule: a signal only when the last crossover is the
\* last row of the frame.
strict_signal(last_crossover_index, last_index, last_crossover_diff) ==
    IF last_crossover_index # Null /\ last_crossover_index = last_index
    THEN (IF last_crossover_diff > 0 THEN "BUY"
          ELSE IF last_crossover_diff < 0 THEN "SELL"
          ELSE "NONE")
    ELSE "NONE"

\* Variant of apply_force that leaves the detected signal alone.
apply_force_ignored(signal, forced) == signal

\* settings.FORCE_SIGNAL replaces the signal when it is BUY or SELL.
apply_force(signal, forced) ==
    IF forced \in {"BUY", "SELL"} THEN forced ELSE signal

\* str(timestamp) and django's parse_datetime on it; timestamps are whole
\* minutes.
MaxTime == MaxCandles + MaxDelay + 2

timestamp_str(t) == "T" \o str(t)

parse_datetime(text) ==
    CHOOSE t \in 0..MaxTime : timestamp_str(t) = text

\* The dict returned by run_ema_pipeline.  diff is kept as its sign, and
\* each echoed candle as its timestamp, close, diff and crossover columns.
NoSignalData ==
    [error |-> Null, signal |-> Null, timestamp |-> Null,
     crossover_timestamp |-> Null, last_close |-> 0, diff |-> 0,
     candles |-> << >>, ohlc_count |-> 0]

pipeline_error(message) == [NoSignalData EXCEPT !.error = message]

\* Steps 5 to 7 of run_ema_pipeline on a diff column whose rows carry the
\* index labels: the crossover column, the last crossover and the strict
\* signal.
detect_crossover(diff, labels) ==
    LET flags == crossover_column(diff)
        row == last_crossover_row(flags)
        last_crossover_index == IF row = 0 THEN Null ELSE labels[row]
        last_crossover_diff == IF row = 0 THEN 0 ELSE diff[row]
    IN [crossover |-> flags,
        crossover_timestamp |-> last_crossover_index,
        signal |-> strict_signal(last_crossover_index, labels[Len(labels)],
                                 last_crossover_diff)]

\* Variant of not_enough_candles that refuses the empty frame only.
not_enough_candles_empty_only(df) == Len(df) < 1

\* len(df) < 2
not_enough_candles(df) == Len(df) < 2

run_ema_pipeline(resp, candle_count, short_span, long_span, forced) ==
    LET fetched == fetch_recent_candles(resp, candle_count)
        raw_data == fetched.data
        df == ohlc_to_dataframe(raw_data)
        diff == diff_column(df, short_span, long_span)
        labels == [t \in 1..Len(df) |-> timestamp_str(df[t].timestamp)]
        found == detect_crossover(diff, labels)
    IN IF fetched.kind = "raise" THEN pipeline_error(fetched.exc)
       ELSE IF raw_data = << >> THEN pipeline_error("No market data received")
       ELSE IF not_enough_candles(df)
       THEN pipeline_error("Not enough candles for crossover detection")
       ELSE [error |-> Null,
             signal |-> apply_force(found.signal, forced),
             timestamp |-> labels[Len(df)],
             crossover_timestamp |-> found.crossover_timestamp,
             last_close |-> df[Len(df)].close,
             diff |-> diff[Len(df)],
             candles |-> [t \in 1..Len(df) |->
                            [timestamp |-> labels[t], close |-> df[t].close,
                             diff |-> diff[t], crossover |-> found.crossover[t]]],
             ohlc_count |-> Len(raw_data)]

\* One application of the pipeline (kind "candles": run_ema_pipeline on a
\* broker answer) or of its crossover detection alone (kind "diff": steps 5
\* to 7 on a diff column): the input, and what came out.
Diffs == {-2, -1, 0, 1, 2}

NoStrategy ==
    [short_span |-> 0, long_span |-> 0, candle_count |-> 0,
     signal_validity_minutes |-> 0]

NoCandleResponse == [kind |-> "unset", status |-> FALSE, data |-> << >>, exc |-> Null]

NoDetection == [crossover |-> << >>, crossover_timestamp |-> Null, signal |-> Null]

NoPipeline ==
    [stage |-> "none", kind |-> "none", resp |-> NoCandleResponse,
     strategy |-> NoStrategy, diff |-> << >>, out |-> NoSignalData,
     found |-> NoDetection, raw |-> << >>, df |-> << >>]

\* ------------------------------------------------------------------------
\* TradingEngine.run and engine_run_api
\* ------------------------------------------------------------------------
\* The first active stock, the one engine_run_api trades.
ActiveStock == "SBIN-EQ"

\* Minutes between the last candle the broker lists and timezone.now(); -1
\* is a candle stamped a minute ahead of the server's clock.
Delays == (0 - 1)..MaxDelay

\* candle_dt when the pipeline reported no crossover (Python None).
NoTime == 0 - 1

\* The SignalLog row of the cycle.
NoSignalLog == [created |-> FALSE, signal |-> Null, executed |-> FALSE]

\* Variant of stale that lets every crossover through.
stale_never(candle_dt, limit) == FALSE

\* Variant of freshness_limit that puts the limit at the first minute.
freshness_limit_epoch(now, signal_validity_minutes) == 0

\* now - timedelta(minutes=strategy.signal_validity_minutes)
freshness_limit(now, signal_validity_minutes) == now - signal_validity_minutes

\* candle_dt < freshness_limit
stale(candle_dt, limit) == candle_dt < limit

\* The cycle of engine_run_api.  stage: "idle", "rejected" (the view
\* answered before the login), "login" (waiting for service.login()),
\* "run" (logged in, TradingEngine.run is the next step and waits for the
\* candles), "execute" (the gates passed, place_order is the next step),
\* "executing" (inside place_order), "returned" (run returned a dict, the
\* view waits for rmsLimit), "responded" (the view built its response),
\* "raised" (an exception left run), "login_error" (login raised before
\* the engine was built).  status and details are the keys of the error
\* dicts, order_result the key of the others.  mode is the mode of the
\* request, response the HTTP status of the JsonResponse the view returned,
\* margin the outcome of rmsLimit.  fetch and series_len record the
\* broker's candle answer and the number of candles handed to the
\* pipeline, calls the broker calls made outside place_order, in order; no
\* action reads them.
NoEngine ==
    [stage |-> "idle", mode |-> Null, dry_run |-> TRUE, quantity |-> 0,
     response |-> Null, margin |-> Null,
     strategy |-> NoStrategy,
     fetch |-> "none", series_len |-> 0, calls |-> << >>,
     signal_data |-> NoSignalData, candle_dt |-> NoTime, now |-> 0,
     signal_log |-> NoSignalLog,
     status |-> Null, details |-> Null, order_result |-> NoResult,
     exc |-> Null]

\* ------------------------------------------------------------------------
\* BatchTradingEngine
\* ------------------------------------------------------------------------
\* Parameters of TradingEngine.__init__ and TradingEngine.run (self left
\* out): the ones without a default, and all of them.
TradingEngine_init_params ==
    [required |-> {"service"}, accepted |-> {"service", "dry_run"}]

TradingEngine_run_params ==
    [required |-> {"stock"}, accepted |-> {"stock", "quantity"}]

\* Keyword arguments BatchTradingEngine passes to them.
batch_init_kwargs == {"dry_run"}

batch_run_kwargs == {"service", "symbol_token", "exchange", "interval", "candle_count"}

\* Python binds a call when every parameter without a default is given and
\* every keyword names a parameter; otherwise the call raises TypeError.
binds(params, kwargs) ==
    /\ params.required \subseteq kwargs
    /\ kwargs \subseteq params.accepted

\* Fields of the StockConfig model, and the attributes of a row that
\* BatchTradingEngine.run reads to build the arguments of
\* trading_engine.run, in the order it reads them.  Reading an attribute
\* the model does not have raises AttributeError.
StockConfig_fields ==
    {"id", "symbol_token", "trading_symbol", "exchange", "timeframe",
     "is_active", "created_at"}

batch_run_reads == <<"symbol", "exchange", "timeframe">>

\* The first attribute read that the row does not have, Null when it has
\* them all.
RECURSIVE missing_attribute(_, _)
missing_attribute(reads, fields) ==
    IF reads = << >> THEN Null
    ELSE IF Head(reads) \notin fields THEN Head(reads)
    ELSE missing_attribute(Tail(reads), fields)

\* StockConfig rows of the database.
StockRows == [trading_symbol : Symbols, is_active : BOOLEAN]

\* service.login(): "ok" returns the session dict; "no_credentials": a
\* credential is empty in the settings and login raises ValueError before
\* its try block, with no call of the broker; "setup_error": inside the
\* try, pyotp.TOTP(...).now() or SmartConnect(...) raised before
\* generateSession was called, and the exception is wrapped; "raise":
\* generateSession raised or reported failure, and the exception is
\* wrapped.
LoginResponses == {"ok", "no_credentials", "setup_error", "raise"}

\* Text of the exception login raises.
login_exception(login) ==
    IF login = "no_credentials"
    THEN "ValueError: SmartAPI credentials missing in .env"
    ELSE "SmartAPI Login Error"

\* Whether login reached the broker (generateSession).
login_calls_broker(login) == login \in {"ok", "raise"}

\* logins counts the calls of service.login() the batch made.
NoBatch ==
    [stage |-> "idle", dry_run |-> TRUE, stocks |-> << >>, logins |-> 0,
     results |-> << >>, exc |-> Null]

\* StockConfig.objects.filter(is_active=True)
RECURSIVE active_stocks(_)
active_stocks(stocks) ==
    IF stocks = << >> THEN << >>
    ELSE LET rest == active_stocks(SubSeq(stocks, 1, Len(stocks) - 1))
             row == stocks[Len(stocks)]
         IN IF row.is_active THEN Append(rest, row) ELSE rest

\* The loop of BatchTradingEngine.run over the active stocks from index i:
\* the arguments of trading_engine.run are evaluated (AttributeError out of
\* the loop when the row lacks an attribute), then the call either binds
\* and yields an entry, or raises TypeError out of the loop.
RECURSIVE batch_loop(_, _, _)
batch_loop(b, active, i) ==
    IF i > Len(active) THEN [b EXCEPT !.stage = "returned"]
    ELSE IF missing_attribute(batch_run_reads, StockConfig_fields) # Null
    THEN [b EXCEPT !.stage = "raised",
                   !.exc = "AttributeError: 'StockConfig' object has no attribute '"
                           \o missing_attribute(batch_run_reads, StockConfig_fields)
                           \o "'"]
    ELSE IF ~binds(TradingEngine_run_params, batch_run_kwargs)
    THEN [b EXCEPT !.stage = "raised",
                   !.exc = "TypeError: run() got an unexpected keyword argument"]
    ELSE batch_loop([b EXCEPT !.results =
                        Append(@, [symbol |-> active[i].trading_symbol,
                                   result |-> "result"])],
                    active, i + 1)

\* BatchTradingEngine(dry_run).run(): the constructor builds TradingEngine
\* and the service, run logs in once and loops over the active stocks.
batch_trading_engine(b, dry_run, login) ==
    LET started == [b EXCEPT !.dry_run = dry_run]
    IN IF ~binds(TradingEngine_init_params, batch_init_kwargs)
       THEN [started EXCEPT !.stage = "raised",
                !.exc = "TypeError: __init__() missing 1 required positional argument: 'service'"]
       ELSE IF login # "ok"
       THEN [started EXCEPT !.stage = "raised", !.logins = 1,
                            !.exc = login_exception(login)]
       ELSE batch_loop([started EXCEPT !.logins = 1], active_stocks(b.stocks), 1)

\* ------------------------------------------------------------------------
\* History of the running cycle.  These fields record what the broker
\* answered and what the table held at fixed points; no action reads them.
\* ------------------------------------------------------------------------
NoHist ==
    [entry |-> [s \in Symbols |-> NoRow],  \* table when place_order was called
     sync |-> "none",          \* position(): "raise", "fail", "ok"
     reported_long |-> FALSE,  \* position() listed the symbol with netqty > 0
     at_check |-> [s \in Symbols |-> NoRow], \* table when the checks ran
     calls |-> << >>,          \* broker calls made, in order
     accepted |-> Null,        \* order id the broker returned
     rejected |-> FALSE,       \* placeOrder answered without an order id
     broker_message |-> Null,  \* message of the placeOrder response
     poll |-> "none",          \* orderBook(): "raise", "fail", "ok"
     found |-> FALSE,          \* the order book listed the submitted id
     polled |-> Null,          \* orderstatus of its first listing
     exc |-> Null]             \* message of the exception raised

NoArgs ==
    [symbol_token |-> Null, trading_symbol |-> Null, exchange |-> Null,
     signal |-> Null, quantity |-> 0, last_price |-> 0, dry_run |-> TRUE]

\* The locals of a second place_order call for the same instrument:
\* position in the method, signal, the row object its _sync_position
\* holds, current_position, order_id, and the broker calls it made.
NoRival ==
    [pc |-> "idle", signal |-> Null, trade_state |-> NoRow,
     current_position |-> Null, order_id |-> Null, calls |-> << >>]

\* An order at the broker: its side and its state ("none" no order, "open"
\* accepted and not yet decided, "filled", "dead" rejected or cancelled).
NoOrder == [side |-> Null, state |-> "none"]

\* The broker's books for the traded instrument: net quantity held, the
\* order of the running cycle, the sides of the orders of earlier cycles
\* that are still open, the sides of the orders filled so far (oldest
\* first), and whether a cycle ever started while an order was open.
NoBroker ==
    [netqty |-> 0, order |-> NoOrder, pending |-> << >>, completed |-> << >>,
     carried |-> FALSE]

Init ==
    /\ trade_state = [s \in Symbols |-> NoRow]
    /\ live_enabled \in BOOLEAN
    /\ pc = "idle"
    /\ args = NoArgs
    /\ current_position = Null
    /\ sync_trade_state = NoRow
    /\ orderparams = NoParams
    /\ place_response = NoResponse
    /\ order_id = Null
    /\ result = NoResult
    /\ hist = NoHist
    /\ force_signal = Null
    /\ pipeline = NoPipeline
    /\ engine = NoEngine
    /\ batch = NoBatch
    /\ rival = NoRival
    /\ broker = NoBroker

\* ------------------------------------------------------------------------
\* place_order, entry: the signal and quantity tests that precede every
\* broker call.
\* ------------------------------------------------------------------------
place_order(trading_symbol, signal, quantity, last_price, dry_run) ==
    /\ pc = "idle"
    /\ args' = [symbol_token |-> symbol_token_of(trading_symbol),
                trading_symbol |-> trading_symbol, exchange |-> "NSE",
                signal |-> signal, quantity |-> quantity,
                last_price |-> last_price, dry_run |-> dry_run]
    /\ hist' = [NoHist EXCEPT !.entry = trade_state, !.at_check = trade_state]
    /\ IF signal \notin {"BUY", "SELL"}
       THEN /\ result' = reason_result("SKIPPED", "No valid signal")
            /\ pc' = "done"
       ELSE IF invalid_quantity(quantity)
       THEN /\ result' = reason_result("BLOCKED", "Invalid quantity")
            /\ pc' = "done"
       ELSE /\ result' = NoResult
            /\ pc' = "sync"
    /\ UNCHANGED <<trade_state, live_enabled, current_position,
                   sync_trade_state, orderparams, place_response, order_id>>

\* _sync_position(trading_symbol): one position() call, answered from
\* Responses, then the table is brought in line with the broker when the
\* call succeeded.  The read of the row and its save() are one step here:
\* this is the step of a request that runs alone.
sync_position_step(Responses) ==
    /\ pc = "sync"
    /\ \E resp \in Responses :
        /\ trade_state' = sync_table(trade_state, args.trading_symbol, resp)
        /\ hist' = [hist EXCEPT
                !.calls = Append(@, "position"),
                !.sync = IF resp.kind = "raise" THEN "raise"
                         ELSE IF resp.status THEN "ok" ELSE "fail",
                !.reported_long =
                    \E i \in 1..Len(resp.data) :
                        /\ resp.data[i].tradingsymbol = args.trading_symbol
                        /\ resp.data[i].netqty >= 1]
    /\ pc' = "check"
    /\ UNCHANGED <<live_enabled, args, current_position, sync_trade_state,
                   orderparams, place_response, order_id, result>>

sync_position ==
    /\ UNCHANGED ext_vars
    /\ sync_position_step(PositionResponses)

\* place_order from get_or_create to the kill switch: read the position,
\* apply the duplicate-direction checks, build the payload, then dry run and
\* kill switch.
check_safety ==
    /\ UNCHANGED ext_vars
    /\ pc = "check"
    /\ LET table == get_or_create(trade_state, args.trading_symbol)
           position == table[args.trading_symbol].position
           block == safety_block(args.signal, position)
           params == build_orderparams(args)
           gate == mode_gate(args.dry_run, live_enabled)
       IN /\ trade_state' = table
          /\ current_position' = position
          /\ hist' = [hist EXCEPT !.at_check = table]
          /\ IF block # Null
             THEN /\ result' = reason_result("BLOCKED", block)
                  /\ orderparams' = orderparams
                  /\ pc' = "done"
             ELSE /\ orderparams' = params
                  /\ IF gate = "DRY_RUN"
                     THEN /\ result' = dry_run_result(params)
                          /\ pc' = "done"
                     ELSE IF gate = "DISABLED"
                     THEN /\ result' = reason_result("DISABLED",
                                    "Live trading disabled in settings")
                          /\ pc' = "done"
                     ELSE /\ result' = result
                          /\ pc' = "submit"
    /\ UNCHANGED <<live_enabled, args, sync_trade_state, place_response,
                   order_id>>

\* placeOrder(orderparams) and the extraction of the order id.
submit_order_step ==
    /\ pc = "submit"
    /\ \E resp \in PlaceResponses :
        LET id == extract_order_id(resp)
        IN /\ hist' = [hist EXCEPT
                    !.calls = Append(@, "placeOrder"),
                    !.broker_message = resp.message,
                    !.exc = resp.exc,
                    !.rejected = /\ resp.kind # "raise"
                                 /\ \/ resp.kind = "dict" /\ ~resp.status
                                    \/ resp.data \notin OrderIds,
                    !.accepted = IF /\ resp.kind \in {"str", "dict"}
                                    /\ resp.kind = "dict" => resp.status
                                    /\ resp.data \in OrderIds
                                 THEN resp.data ELSE Null]
           /\ IF resp.kind = "raise"
              THEN /\ result' = exception_result(resp.exc)
                   /\ UNCHANGED <<place_response, order_id>>
                   /\ pc' = "done"
              ELSE /\ place_response' = resp
                   /\ IF place_rejected(resp)
                      THEN /\ result' = rejected_result(resp.message, resp)
                           /\ order_id' = order_id
                           /\ pc' = "done"
                      ELSE IF ~truthy(id)
                      THEN /\ result' = rejected_result("No order ID returned", resp)
                           /\ order_id' = id
                           /\ pc' = "done"
                      ELSE /\ result' = result
                           /\ order_id' = id
                           /\ pc' = "poll"
    /\ UNCHANGED <<trade_state, live_enabled, args, current_position,
                   sync_trade_state, orderparams>>

submit_order ==
    /\ UNCHANGED ext_vars
    /\ submit_order_step

\* Variant of poll_order_book that asks the order book again when the call
\* raised.
poll_order_book_retry ==
    /\ UNCHANGED ext_vars
    /\ pc = "poll"
    /\ \E order_book \in OrderBookResponses :
        LET final_status == poll_status(order_book, order_id)
            matched_order == match_order(order_book, order_id)
        IN /\ hist' = [hist EXCEPT !.calls = Append(@, "orderBook"),
                                   !.exc = order_book.exc]
           /\ IF order_book.kind = "raise"
              THEN /\ UNCHANGED <<result, trade_state>>
                   /\ pc' = "poll"
              ELSE /\ trade_state' = complete_table(trade_state, args.trading_symbol,
                                                    args.signal, final_status)
                   /\ result' = final_result(final_status, order_id, orderparams,
                                             place_response, matched_order)
                   /\ pc' = "done"
    /\ UNCHANGED <<live_enabled, args, current_position, sync_trade_state,
                   orderparams, place_response, order_id>>

\* orderBook(), answered from Responses, the search for the submitted id,
\* the table write on COMPLETE and the diagnostic result.
poll_order_book_step(Responses) ==
    /\ pc = "poll"
    /\ \E order_book \in Responses :
        LET final_status == poll_status(order_book, order_id)
            matched_order == match_order(order_book, order_id)
        IN /\ hist' = [hist EXCEPT
                    !.calls = Append(@, "orderBook"),
                    !.exc = order_book.exc,
                    !.poll = IF order_book.kind = "raise" THEN "raise"
                             ELSE IF order_book.status THEN "ok" ELSE "fail",
                    !.found = \E i \in 1..Len(order_book.data) :
                                order_book.data[i].orderid = order_id,
                    !.polled =
                        LET listed == {i \in 1..Len(order_book.data) :
                                        order_book.data[i].orderid = order_id}
                        IN IF listed = {} THEN Null
                           ELSE order_book.data[
                                  CHOOSE i \in listed :
                                    \A j \in listed : i <= j].orderstatus]
           /\ IF order_book.kind = "raise"
              THEN /\ result' = exception_result(order_book.exc)
                   /\ trade_state' = trade_state
              ELSE /\ trade_state' = complete_table(trade_state, args.trading_symbol,
                                                    args.signal, final_status)
                   /\ result' = final_result(final_status, order_id, orderparams,
                                             place_response, matched_order)
    /\ pc' = "done"
    /\ UNCHANGED <<live_enabled, args, current_position, sync_trade_state,
                   orderparams, place_response, order_id>>

poll_order_book ==
    /\ UNCHANGED ext_vars
    /\ poll_order_book_step(OrderBookResponses)

\* The result goes back to the caller; the next cycle starts from the
\* table as this one left it.
cycle_return ==
    /\ UNCHANGED ext_vars
    /\ pc = "done"
    /\ pc' = "idle"
    /\ args' = NoArgs
    /\ current_position' = Null
    /\ orderparams' = NoParams
    /\ place_response' = NoResponse
    /\ order_id' = Null
    /\ result' = NoResult
    /\ hist' = NoHist
    /\ UNCHANGED <<trade_state, live_enabled, sync_trade_state>>

call_place_order ==
    /\ UNCHANGED ext_vars
    /\ engine.stage = "idle"
    /\ \E trading_symbol \in Symbols, signal \in Signals, quantity \in Quantities,
          last_price \in LastPrices, dry_run \in BOOLEAN :
            place_order(trading_symbol, signal, quantity, last_price, dry_run)

Next ==
    \/ call_place_order
    \/ sync_position
    \/ check_safety
    \/ submit_order
    \/ poll_order_book
    \/ cycle_return

Spec == Init /\ [][Next]_vars

\* ------------------------------------------------------------------------
\* The signal pipeline on its own: run_ema_pipeline applied to a broker
\* answer, and its crossover detection applied to a diff column.
\* ------------------------------------------------------------------------
order_service_idle ==
    /\ trade_state = [s \in Symbols |-> NoRow]
    /\ live_enabled \in BOOLEAN
    /\ pc = "idle"
    /\ args = NoArgs
    /\ current_position = Null
    /\ sync_trade_state = NoRow
    /\ orderparams = NoParams
    /\ place_response = NoResponse
    /\ order_id = Null
    /\ result = NoResult
    /\ hist = NoHist

order_vars ==
    <<trade_state, live_enabled, pc, args, current_position, sync_trade_state,
      orderparams, place_response, order_id, result, hist>>

PipelineInit ==
    /\ order_service_idle
    /\ force_signal \in ForceSignals
    /\ \/ \E resp \in CandleResponses, strategy \in Strategies :
            pipeline = [NoPipeline EXCEPT !.stage = "input", !.kind = "candles",
                                          !.resp = resp, !.strategy = strategy]
       \/ \E diff \in SeqUpTo(Diffs, MaxDiffs) \ {<< >>} :
            pipeline = [NoPipeline EXCEPT !.stage = "input", !.kind = "diff",
                                          !.diff = diff]
       \/ \E raw \in RawLists :
            pipeline = [NoPipeline EXCEPT !.stage = "input", !.kind = "raw",
                                          !.raw = raw]
    /\ engine = NoEngine
    /\ batch = NoBatch
    /\ rival = NoRival
    /\ broker = NoBroker

apply_run_ema_pipeline ==
    /\ pipeline.stage = "input"
    /\ pipeline.kind = "candles"
    /\ pipeline' = [pipeline EXCEPT
            !.stage = "output",
            !.out = run_ema_pipeline(pipeline.resp, pipeline.strategy.candle_count,
                                     pipeline.strategy.short_span,
                                     pipeline.strategy.long_span, force_signal)]
    /\ UNCHANGED <<order_vars, force_signal, engine, batch, rival, broker>>

apply_detect_crossover ==
    /\ pipeline.stage = "input"
    /\ pipeline.kind = "diff"
    /\ pipeline' = [pipeline EXCEPT
            !.stage = "output",
            !.found = detect_crossover(pipeline.diff,
                        [t \in 1..Len(pipeline.diff) |-> timestamp_str(t)])]
    /\ UNCHANGED <<order_vars, force_signal, engine, batch, rival, broker>>

\* Step 2 of run_ema_pipeline on a raw candle list (kind "raw"): the frame
\* ohlc_to_dataframe returns.
apply_ohlc_to_dataframe ==
    /\ pipeline.stage = "input"
    /\ pipeline.kind = "raw"
    /\ \E df \in sorted_frames(pipeline.raw) :
            pipeline' = [pipeline EXCEPT !.stage = "output", !.df = df]
    /\ UNCHANGED <<order_vars, force_signal, engine, batch, rival, broker>>

PipelineNext ==
    \/ apply_run_ema_pipeline
    \/ apply_detect_crossover
    \/ apply_ohlc_to_dataframe

PipelineSpec == PipelineInit /\ [][PipelineNext]_vars

\* ------------------------------------------------------------------------
\* engine_run_api: login, TradingEngine.run up to the call of place_order,
\* place_order itself (the actions above), and the rest of run.
\* ------------------------------------------------------------------------
\* TradingEngine.run from the strategy lookup to the freshness check.
\* strategy is NoStrategy when the stock has no StrategyConfig; details is
\* the text of the error (for PIPELINE_ERROR the signal data's error).
trading_engine_run(e, strategy, resp, now, forced) ==
    LET signal_data == run_ema_pipeline(resp, strategy.candle_count,
                                        strategy.short_span, strategy.long_span,
                                        forced)
        signal == signal_data.signal
        crossover_timestamp == signal_data.crossover_timestamp
        candle_dt == IF crossover_timestamp # Null
                     THEN parse_datetime(crossover_timestamp) ELSE NoTime
        logged == [e EXCEPT !.signal_data = signal_data,
                            !.candle_dt = candle_dt,
                            !.signal_log = [created |-> TRUE, signal |-> signal,
                                            executed |-> FALSE]]
    IN IF strategy = NoStrategy
       THEN [e EXCEPT !.stage = "returned", !.status = "CONFIG_ERROR",
                      !.details = "StrategyConfig not defined for this stock"]
       ELSE IF signal_data.error # Null
       THEN [e EXCEPT !.stage = "returned", !.status = "PIPELINE_ERROR",
                      !.details = signal_data.error,
                      !.signal_data = signal_data]
       ELSE IF candle_dt = NoTime
       THEN [e EXCEPT !.stage = "raised", !.signal_data = signal_data,
                      !.exc = "IntegrityError: NOT NULL constraint failed: trading_signallog.crossover_timestamp"]
       ELSE IF signal \notin {"BUY", "SELL"}
       THEN [logged EXCEPT !.stage = "returned",
                           !.order_result =
                                reason_result("SKIPPED", "No fresh crossover")]
       ELSE IF stale(candle_dt,
                     freshness_limit(now, strategy.signal_validity_minutes))
       THEN [logged EXCEPT !.stage = "returned",
                           !.order_result =
                                reason_result("STALE_SIGNAL",
                                              "Signal older than validity window")]
       ELSE [logged EXCEPT !.stage = "execute"]

\* request.POST.get("mode", "dry"): a request without a mode is a "dry"
\* one; "paper" stands for any other value.
Modes == {"dry", "live", "paper"}

\* Variant of dry_run_of that trusts the mode of the request alone.
dry_run_of_mode_only(mode, enabled) == ~(mode = "live")

\* dry_run = not (mode == "live" and LIVE_TRADING_ENABLED)
dry_run_of(mode, enabled) == ~(mode = "live" /\ enabled)

\* request.method, and whether an active StockConfig row exists.
Methods == {"GET", "POST"}

\* smart.rmsLimit() as the view uses it: answered, or raised (the view
\* catches the exception and shows the error).
MarginResponses == {"ok", "raise"}

\* The view up to the login: the method test (405), the active stock
\* (400), then the mode of the request and dry_run.
engine_run_api ==
    /\ engine.stage = "idle"
    /\ pc = "idle"
    /\ \E method \in Methods, stock \in {ActiveStock, Null}, mode \in Modes :
        engine' = IF method # "POST"
                  THEN [engine EXCEPT !.stage = "rejected", !.response = 405,
                                      !.details = "POST required"]
                  ELSE IF stock = Null
                  THEN [engine EXCEPT !.stage = "rejected", !.response = 400,
                                      !.details = "No active stock configured"]
                  ELSE [engine EXCEPT !.stage = "login",
                                      !.mode = mode,
                                      !.dry_run = dry_run_of(mode, live_enabled)]
    /\ UNCHANGED <<order_vars, force_signal, pipeline, batch, rival, broker>>

\* service.login(): it returns the session or raises; the exception leaves
\* the view.
engine_login ==
    /\ engine.stage = "login"
    /\ \E login \in LoginResponses :
        engine' = IF login # "ok"
                  THEN [engine EXCEPT !.stage = "login_error",
                                      !.calls = IF login_calls_broker(login)
                                                THEN Append(@, "login") ELSE @,
                                      !.exc = login_exception(login)]
                  ELSE [engine EXCEPT !.stage = "run",
                                      !.calls = Append(@, "login")]
    /\ UNCHANGED <<order_vars, force_signal, pipeline, batch, rival, broker>>

\* TradingEngine(service, dry_run).run(stock, quantity) up to the call of
\* place_order: the strategy, the candle fetch of the pipeline, the
\* SignalLog row and the freshness check.
engine_run ==
    /\ engine.stage = "run"
    /\ \E quantity \in Quantities, strategy \in Strategies \cup {NoStrategy},
          resp \in CandleResponsesUpTo(MaxCycleCandles), delay \in Delays :
        LET started == [engine EXCEPT
                            !.calls = IF strategy = NoStrategy THEN @
                                      ELSE Append(@, "getCandleData"),
                            !.quantity = quantity,
                            !.strategy = strategy,
                            !.fetch = IF strategy = NoStrategy THEN "none"
                                      ELSE IF resp.kind = "raise" THEN "raise"
                                      ELSE IF resp.status THEN "ok" ELSE "fail",
                            !.series_len =
                                IF strategy = NoStrategy THEN 0
                                ELSE IF Len(resp.data) <= strategy.candle_count
                                THEN Len(resp.data) ELSE strategy.candle_count,
                            !.now = Len(resp.data) + delay]
        IN engine' = trading_engine_run(started, strategy, resp,
                                        Len(resp.data) + delay, force_signal)
    /\ UNCHANGED <<order_vars, force_signal, pipeline, batch, rival, broker>>

\* order_service.place_order(...) called by run.  The signal data goes
\* into the result of run as it is; the cycle record keeps, through
\* place_order, only what the rest of run reads or writes.
engine_place_order ==
    /\ engine.stage = "execute"
    /\ place_order(ActiveStock, engine.signal_data.signal, engine.quantity,
                   engine.signal_data.last_close, engine.dry_run)
    /\ engine' = [NoEngine EXCEPT !.stage = "executing",
                                  !.mode = engine.mode,
                                  !.calls = engine.calls,
                                  !.dry_run = engine.dry_run,
                                  !.quantity = engine.quantity,
                                  !.signal_log = engine.signal_log]
    /\ UNCHANGED <<force_signal, pipeline, batch, rival, broker>>

\* order_result.get("status") in ["EXECUTED", "ORDER_SENT"]
mark_executed(status) == status \in {"EXECUTED", "ORDER_SENT"}

\* place_order has returned: the executed mark and the result of run.
engine_finish ==
    /\ engine.stage = "executing"
    /\ pc = "done"
    /\ engine' = [engine EXCEPT !.stage = "returned",
                                !.order_result = result,
                                !.signal_log.executed = mark_executed(result.status)]
    /\ UNCHANGED <<order_vars, force_signal, pipeline, batch, rival, broker>>

\* The view after run returned: it asks the broker for the margin
\* (rmsLimit, exception caught), reads the TradeState row and answers 200.
engine_margin ==
    /\ engine.stage = "returned"
    /\ \E rms \in MarginResponses :
        engine' = [engine EXCEPT !.stage = "responded",
                                 !.calls = Append(@, "rmsLimit"),
                                 !.margin = rms,
                                 !.response = 200]
    /\ UNCHANGED <<order_vars, force_signal, pipeline, batch, rival, broker>>

\* The response, or the exception, leaves the view; the next request finds
\* the table as this one left it.
engine_return ==
    /\ engine.stage \in {"rejected", "responded", "raised", "login_error"}
    /\ engine' = NoEngine
    /\ pc' = "idle"
    /\ args' = NoArgs
    /\ current_position' = Null
    /\ orderparams' = NoParams
    /\ place_response' = NoResponse
    /\ order_id' = Null
    /\ result' = NoResult
    /\ hist' = NoHist
    /\ UNCHANGED <<trade_state, live_enabled, sync_trade_state, force_signal,
                   pipeline, batch, rival, broker>>

EngineInit ==
    /\ order_service_idle
    /\ force_signal \in ForceSignals
    /\ pipeline = NoPipeline
    /\ engine = NoEngine
    /\ batch = NoBatch
    /\ rival = NoRival
    /\ broker = NoBroker

EngineNext ==
    \/ engine_run_api
    \/ engine_login
    \/ engine_run
    \/ engine_place_order
    \/ sync_position
    \/ check_safety
    \/ submit_order
    \/ poll_order_book
    \/ engine_finish
    \/ engine_margin
    \/ engine_return

EngineSpec == EngineInit /\ [][EngineNext]_vars

\* ------------------------------------------------------------------------
\* BatchTradingEngine(dry_run).run() over the StockConfig table
\* ------------------------------------------------------------------------
BatchInit ==
    /\ order_service_idle
    /\ force_signal = Null
    /\ pipeline = NoPipeline
    /\ engine = NoEngine
    /\ \E stocks \in SeqUpTo(StockRows, MaxStocks) :
            batch = [NoBatch EXCEPT !.stocks = stocks]
    /\ rival = NoRival
    /\ broker = NoBroker

batch_run ==
    /\ batch.stage = "idle"
    /\ \E dry_run \in BOOLEAN, login \in LoginResponses :
            batch' = batch_trading_engine(batch, dry_run, login)
    /\ UNCHANGED <<order_vars, force_signal, pipeline, engine, rival, broker>>

BatchNext == batch_run

BatchSpec == BatchInit /\ [][BatchNext]_vars

\* ------------------------------------------------------------------------
\* Two requests at once.  engine_run_api is a plain view: nothing keeps a
\* second request from running place_order for the same instrument while
\* the first is inside it.  The first call is the order service above; the
\* second, rival, runs the same method on the same TradeState table, its
\* steps interleaved with those of the first at the broker calls and
\* between the accesses to the table: in _sync_position the row is read
\* (get_or_create) and later saved whole (save()), and the other request
\* may write the row in between.  Both trade the active stock with
\* quantity 1, not as a dry run, on the signal of the same candles.
\* ------------------------------------------------------------------------
ConcurrentInit ==
    /\ order_service_idle
    /\ force_signal = Null
    /\ pipeline = NoPipeline
    /\ engine = NoEngine
    /\ batch = NoBatch
    /\ rival = NoRival
    /\ broker = NoBroker

\* The first request enters place_order.
request_place_order ==
    /\ UNCHANGED ext_vars
    /\ \E signal \in {"BUY", "SELL"} :
            place_order(ActiveStock, signal, 1, 100, FALSE)

\* _sync_position of the first request up to the comparison: position()
\* answers, the row is read, and the object to save is held.
sync_position_read ==
    /\ UNCHANGED ext_vars
    /\ pc = "sync"
    /\ \E resp \in PositionResponses :
        LET read == sync_read(trade_state, args.trading_symbol, resp)
        IN /\ trade_state' = read.table
           /\ sync_trade_state' = read.object
           /\ pc' = IF read.dirty THEN "save" ELSE "check"
           /\ hist' = [hist EXCEPT
                !.calls = Append(@, "position"),
                !.sync = IF resp.kind = "raise" THEN "raise"
                         ELSE IF resp.status THEN "ok" ELSE "fail",
                !.reported_long =
                    \E i \in 1..Len(resp.data) :
                        /\ resp.data[i].tradingsymbol = args.trading_symbol
                        /\ resp.data[i].netqty >= 1]
    /\ UNCHANGED <<live_enabled, args, current_position, orderparams,
                   place_response, order_id, result>>

\* trade_state.save() of the first request's _sync_position.
sync_position_save ==
    /\ UNCHANGED ext_vars
    /\ pc = "save"
    /\ trade_state' = save(trade_state, args.trading_symbol, sync_trade_state)
    /\ sync_trade_state' = NoRow
    /\ pc' = "check"
    /\ UNCHANGED <<live_enabled, args, current_position, orderparams,
                   place_response, order_id, result, hist>>

rival_unchanged ==
    UNCHANGED <<live_enabled, pc, args, current_position, sync_trade_state,
                orderparams, place_response, order_id, result, hist,
                force_signal, pipeline, engine, batch, broker>>

\* The second request enters place_order while the first is inside it.  It
\* ran the pipeline on the same candles, so it carries the same signal, BUY
\* or SELL; its quantity is positive, so it goes on to the reconciliation.
rival_place_order ==
    /\ rival.pc = "idle"
    /\ pc # "idle"
    /\ rival' = [NoRival EXCEPT !.pc = "sync", !.signal = args.signal]
    /\ UNCHANGED trade_state
    /\ rival_unchanged

\* _sync_position of the second request up to the comparison.
rival_sync_read ==
    /\ rival.pc = "sync"
    /\ \E resp \in PositionResponsesUpTo(1) :
        LET read == sync_read(trade_state, ActiveStock, resp)
        IN /\ trade_state' = read.table
           /\ rival' = [rival EXCEPT
                    !.pc = IF read.dirty THEN "save" ELSE "check",
                    !.trade_state = read.object,
                    !.calls = Append(@, "position")]
    /\ rival_unchanged

\* trade_state.save() of the second request's _sync_position.
rival_sync_save ==
    /\ rival.pc = "save"
    /\ trade_state' = save(trade_state, ActiveStock, rival.trade_state)
    /\ rival' = [rival EXCEPT !.pc = "check", !.trade_state = NoRow]
    /\ rival_unchanged

\* The second request reads the row, applies the position checks and the
\* kill switch.
rival_check_safety ==
    /\ rival.pc = "check"
    /\ LET table == get_or_create(trade_state, ActiveStock)
           position == table[ActiveStock].position
           block == safety_block(rival.signal, position)
           gate == mode_gate(FALSE, live_enabled)
       IN /\ trade_state' = table
          /\ rival' = [rival EXCEPT
                !.current_position = position,
                !.pc = IF block = Null /\ gate = "SUBMIT" THEN "submit"
                       ELSE "done"]
    /\ rival_unchanged

\* placeOrder of the second request.
rival_submit_order ==
    /\ rival.pc = "submit"
    /\ \E resp \in PlaceResponses :
        LET id == extract_order_id(resp)
            failed == resp.kind = "raise" \/ place_rejected(resp) \/ ~truthy(id)
        IN rival' = [rival EXCEPT
                !.calls = Append(@, "placeOrder"),
                !.order_id = IF failed THEN Null ELSE id,
                !.pc = IF failed THEN "done" ELSE "poll"]
    /\ UNCHANGED trade_state
    /\ rival_unchanged

\* orderBook of the second request and its table write on COMPLETE.
rival_poll_order_book ==
    /\ rival.pc = "poll"
    /\ \E order_book \in OrderBookResponsesUpTo(1) :
        LET final_status == poll_status(order_book, rival.order_id)
        IN /\ trade_state' =
                IF order_book.kind = "raise" THEN trade_state
                ELSE complete_table(trade_state, ActiveStock, rival.signal,
                                    final_status)
           /\ rival' = [rival EXCEPT !.calls = Append(@, "orderBook"),
                                     !.pc = "done"]
    /\ rival_unchanged

\* The second request has its response.
rival_return ==
    /\ rival.pc = "done"
    /\ rival' = NoRival
    /\ UNCHANGED trade_state
    /\ rival_unchanged

ConcurrentNext ==
    \/ request_place_order
    \/ sync_position_read
    \/ sync_position_save
    \/ check_safety
    \/ submit_order
    \/ poll_order_book
    \/ cycle_return
    \/ rival_place_order
    \/ rival_sync_read
    \/ rival_sync_save
    \/ rival_check_safety
    \/ rival_submit_order
    \/ rival_poll_order_book
    \/ rival_return

ConcurrentSpec == ConcurrentInit /\ [][ConcurrentNext]_vars

\* ------------------------------------------------------------------------
\* Sequential live cycles against a broker with books of its own.  The
\* broker holds a net quantity of the active stock; an order it accepted
\* is open until the broker fills it or lets it die, at any moment after
\* the submission, during the cycle or after it.  smart.position() always
\* succeeds and reports the holding as it is; smart.orderBook() may fail or
\* leave the order out, but lists the order of the cycle only with the
\* state it has in the books.
\* ------------------------------------------------------------------------
\* The holding as position() reports it (net quantities of the responses
\* are -1, 0 and 1).
holding(netqty) == IF netqty > 0 THEN 1 ELSE IF netqty < 0 THEN 0 - 1 ELSE 0

\* Successful position() answers that agree with the books: every entry of
\* the active stock carries the holding, and a holding that is not 0 is
\* listed.
FaithfulPositions ==
    {resp \in PositionResponses :
        /\ resp.kind = "dict"
        /\ resp.status
        /\ \A i \in 1..Len(resp.data) :
                resp.data[i].tradingsymbol = ActiveStock
                    => resp.data[i].netqty = holding(broker.netqty)
        /\ holding(broker.netqty) # 0
                => \E i \in 1..Len(resp.data) :
                        resp.data[i].tradingsymbol = ActiveStock}

\* orderstatus of an order in the order book, by its state in the books.
book_status(state) ==
    IF state = "filled" THEN "COMPLETE"
    ELSE IF state = "dead" THEN "rejected"
    ELSE "open"

\* orderBook() answers that list the order of the cycle, if they list it,
\* with its state in the books.
FaithfulOrderBooks ==
    {order_book \in OrderBookResponses :
        \A i \in 1..Len(order_book.data) :
            order_book.data[i].orderid = order_id
                => order_book.data[i].orderstatus = book_status(broker.order.state)}

\* The books after an order of the side was filled.
fill(books, side) ==
    [books EXCEPT !.netqty = IF side = "BUY" THEN @ + 1 ELSE @ - 1,
                  !.completed = Append(@, side)]

\* seq without its i-th element.
remove_at(seq, i) == SubSeq(seq, 1, i - 1) \o SubSeq(seq, i + 1, Len(seq))

BrokerInit ==
    /\ order_service_idle
    /\ live_enabled
    /\ force_signal = Null
    /\ pipeline = NoPipeline
    /\ engine = NoEngine
    /\ batch = NoBatch
    /\ rival = NoRival
    /\ broker = NoBroker

broker_unchanged ==
    UNCHANGED <<trade_state, live_enabled, pc, args, current_position,
                sync_trade_state, orderparams, place_response, order_id,
                result, hist, force_signal, pipeline, engine, batch, rival>>

\* The next cycle starts: place_order is called, not as a dry run, with the
\* signal of the cycle.  An order of the cycle before that is still open
\* stays open in the books.
live_place_order ==
    /\ Len(broker.completed) < MaxFills
    /\ Len(broker.pending) + (IF broker.order.state = "open" THEN 1 ELSE 0)
            <= MaxPending
    /\ \E signal \in Signals : place_order(ActiveStock, signal, 1, 100, FALSE)
    /\ broker' = [broker EXCEPT
            !.order = NoOrder,
            !.pending = IF broker.order.state = "open"
                        THEN Append(@, broker.order.side) ELSE @,
            !.carried = @ \/ broker.order.state = "open"]
    /\ UNCHANGED <<force_signal, pipeline, engine, batch, rival>>

live_sync_position ==
    /\ UNCHANGED ext_vars
    /\ sync_position_step(FaithfulPositions)

\* placeOrder: an order for which the broker returned an id is open in the
\* books.
live_submit_order ==
    /\ submit_order_step
    /\ broker' = IF hist'.accepted # Null
                 THEN [broker EXCEPT !.order = [side |-> args.signal,
                                               state |-> "open"]]
                 ELSE broker
    /\ UNCHANGED <<force_signal, pipeline, engine, batch, rival>>

live_poll_order_book ==
    /\ UNCHANGED ext_vars
    /\ poll_order_book_step(FaithfulOrderBooks)

\* The broker fills the order of the running cycle, or lets it die.
broker_fill ==
    /\ broker.order.state = "open"
    /\ Len(broker.completed) < MaxFills
    /\ broker' = [fill(broker, broker.order.side) EXCEPT !.order.state = "filled"]
    /\ broker_unchanged

broker_reject ==
    /\ broker.order.state = "open"
    /\ broker' = [broker EXCEPT !.order.state = "dead"]
    /\ broker_unchanged

\* The broker fills an order of an earlier cycle, or lets it die.
broker_fill_pending ==
    /\ Len(broker.completed) < MaxFills
    /\ \E i \in 1..Len(broker.pending) :
            broker' = [fill(broker, broker.pending[i]) EXCEPT
                            !.pending = remove_at(@, i)]
    /\ broker_unchanged

broker_reject_pending ==
    /\ \E i \in 1..Len(broker.pending) :
            broker' = [broker EXCEPT !.pending = remove_at(@, i)]
    /\ broker_unchanged

BrokerNext ==
    \/ live_place_order
    \/ live_sync_position
    \/ check_safety
    \/ live_submit_order
    \/ live_poll_order_book
    \/ cycle_return
    \/ broker_fill
    \/ broker_reject
    \/ broker_fill_pending
    \/ broker_reject_pending

BrokerSpec == BrokerInit /\ [][BrokerNext]_vars

\* ------------------------------------------------------------------------
\* Properties
\* ------------------------------------------------------------------------
Called(name) == \E i \in 1..Len(hist.calls) : hist.calls[i] = name

Positions(table) == [s \in Symbols |-> table[s].position]

\* The payload place_order is expected to build for the running call, with
\* the decimal strings written out.
ExpectedQuantity == <<"1", "2", "3", "4">>

ExpectedPrice == IF args.last_price = 2 THEN "2.4" ELSE "120.0"

ExpectedPayload ==
    [variety |-> "NORMAL", tradingsymbol |-> args.trading_symbol,
     symboltoken |-> IF args.trading_symbol = "SBIN-EQ" THEN "3045" ELSE "2885",
     transactiontype |-> args.signal, exchange |-> "NSE",
     ordertype |-> "MARKET", producttype |-> "DELIVERY", duration |-> "DAY",
     price |-> ExpectedPrice, squareoff |-> "0",
     stoploss |-> "0", quantity |-> ExpectedQuantity[args.quantity]]

\* C1: execution idempotence.  Whenever place_order runs with signal BUY and
\* the TradeState position read after reconciliation is LONG, the call ends
\* BLOCKED and placeOrder is not invoked, in every cycle of every replay.
C1_BuyWhenLongBlocked ==
    (args.signal = "BUY" /\ current_position = "LONG")
        => /\ pc = "done"
           /\ result.status = "BLOCKED"
           /\ ~Called("placeOrder")

\* A BUY replayed on a ledger that an earlier cycle already left LONG.
C1_Witness ==
    /\ pc = "done"
    /\ args.signal = "BUY"
    /\ ~args.dry_run
    /\ live_enabled
    /\ hist.entry[args.trading_symbol].position = "LONG"
    /\ hist.entry[args.trading_symbol].last_signal = "BUY"
    /\ current_position = "LONG"
    /\ result.status = "BLOCKED"

\* C2: reconciliation overrides local state.  If the ledger said NONE and
\* position() succeeded listing the trading symbol with a positive netqty,
\* then after _sync_position the ledger reads LONG, and a BUY of that cycle
\* is BLOCKED without a placeOrder call.
C2_SyncOverridesNone ==
    (/\ pc \in {"check", "submit", "poll", "done"}
     /\ hist.sync = "ok"
     /\ hist.reported_long
     /\ hist.entry[args.trading_symbol].position = "NONE")
        => /\ pc = "check" => /\ trade_state[args.trading_symbol].exists
                              /\ trade_state[args.trading_symbol].position = "LONG"
           /\ pc # "check" => current_position = "LONG"
           /\ args.signal = "BUY" =>
                /\ pc \in {"check", "done"}
                /\ ~Called("placeOrder")
                /\ pc = "done" => result.status = "BLOCKED"

C2_Witness ==
    /\ pc = "done"
    /\ args.signal = "BUY"
    /\ ~args.dry_run
    /\ live_enabled
    /\ hist.sync = "ok"
    /\ hist.reported_long
    /\ hist.entry[args.trading_symbol].position = "NONE"
    /\ trade_state[args.trading_symbol].position = "LONG"
    /\ result.status = "BLOCKED"

\* C3: with dry_run = True place_order never reaches placeOrder, whatever
\* the signal, position and quantity; when the signal is BUY/SELL, the
\* quantity positive and no safety check trips, the result is DRY_RUN and
\* carries the payload that would have been sent.
C3_DryRunNeverSubmits ==
    (pc # "idle" /\ args.dry_run)
        => /\ ~Called("placeOrder")
           /\ ~Called("orderBook")
           /\ pc \notin {"submit", "poll"}
           /\ (/\ pc = "done"
               /\ args.signal \in {"BUY", "SELL"}
               /\ args.quantity > 0
               /\ ~(args.signal = "BUY" /\ current_position = "LONG")
               /\ ~(args.signal = "SELL" /\ current_position = "NONE"))
                => /\ result.status = "DRY_RUN"
                   /\ result.payload = ExpectedPayload

\* A dry run that passes every check while live trading is enabled.
C3_Witness ==
    /\ pc = "done"
    /\ args.dry_run
    /\ live_enabled
    /\ args.signal = "SELL"
    /\ current_position = "LONG"
    /\ result.status = "DRY_RUN"
    /\ result.payload.transactiontype = "SELL"

\* C4: in dry-run mode the TradeState position of every instrument after the
\* cycle equals its value before the cycle, also when the broker-reported
\* position differs from the ledger.
C4_DryRunLeavesLedger ==
    (pc = "done" /\ args.dry_run)
        => Positions(trade_state) = Positions(hist.entry)

\* C5: once an order was submitted, the ledger is written only when the
\* polled status of that order is COMPLETE, then to LONG for BUY and NONE
\* for SELL; for every other outcome of the submit/poll phase the table is
\* what it was when the safety checks ran.
C5_OnlyCompleteMutates ==
    (pc = "done" /\ Called("placeOrder"))
        => IF hist.poll = "ok" /\ hist.polled = "COMPLETE"
           THEN /\ trade_state[args.trading_symbol].position =
                      (IF args.signal = "BUY" THEN "LONG" ELSE "NONE")
                /\ \A s \in Symbols \ {args.trading_symbol} :
                      trade_state[s] = hist.at_check[s]
           ELSE trade_state = hist.at_check

\* A SELL confirmed COMPLETE that took the ledger from LONG to NONE.
C5_Witness ==
    /\ pc = "done"
    /\ args.signal = "SELL"
    /\ hist.poll = "ok"
    /\ hist.polled = "COMPLETE"
    /\ hist.at_check[args.trading_symbol].position = "LONG"
    /\ trade_state[args.trading_symbol].position = "NONE"

\* C6: when the order book does not list the submitted order id, or the
\* order book query reports failure, the outcome is UNKNOWN (not FAILED)
\* with the order id, and the ledger is unchanged.
C6_NotFoundIsUnknown ==
    (/\ pc = "done"
     /\ \/ hist.poll = "fail"
        \/ hist.poll = "ok" /\ ~hist.found)
        => /\ result.status = "UNKNOWN"
           /\ result.order_id = hist.accepted
           /\ trade_state = hist.at_check

C6_Witness ==
    /\ pc = "done"
    /\ hist.poll = "ok"
    /\ ~hist.found
    /\ hist.accepted \in OrderIds
    /\ result.status = "UNKNOWN"

\* C7: if the position query of the reconciliation raises or returns a
\* failure status, the cycle ends FAILED, the ledger is untouched and no
\* order is submitted in that cycle.
C7_SyncFailureFailsCycle ==
    (pc = "done" /\ hist.sync \in {"raise", "fail"})
        => /\ result.status = "FAILED"
           /\ Positions(trade_state) = Positions(hist.entry)
           /\ ~Called("placeOrder")

\* C8 as stated: if placeOrder or orderBook raises, the outcome is FAILED
\* with the exception's message, and the ledger is unchanged.
C8_ExceptionIsFailed ==
    (pc = "done" /\ hist.exc # Null)
        => /\ result.status = "FAILED"
           /\ result.error = hist.exc
           /\ trade_state = hist.at_check

\* C9: once the broker returned an order id, the result of the cycle carries
\* that id with a broker status or UNKNOWN, and is never a failure.
C9_AcceptedOrderKept ==
    (pc = "done" /\ hist.accepted # Null)
        => /\ result.order_id = hist.accepted
           /\ result.status \in OrderStatuses \cup {"UNKNOWN"}

\* C10: a rejection at submission (failure flag, or no order id in the
\* response) ends the cycle FAILED; the broker's message is in the result
\* verbatim (as the error when the failure flag was set, and inside the
\* echoed response in every case); no poll is made, the ledger is unchanged.
C10_RejectionIsFailed ==
    (pc = "done" /\ hist.rejected)
        => /\ result.status = "FAILED"
           /\ result.raw_place_response.message = hist.broker_message
           /\ (place_response.kind = "dict" /\ ~place_response.status)
                => result.error = hist.broker_message
           /\ result.order_id = Null
           /\ ~Called("orderBook")
           /\ trade_state = hist.at_check

\* A dict response with the failure flag and a broker message.
C10_Witness ==
    /\ pc = "done"
    /\ hist.rejected
    /\ place_response.kind = "dict"
    /\ ~place_response.status
    /\ hist.broker_message = "RMS:Insufficient funds"
    /\ result.error = "RMS:Insufficient funds"

\* C11: kill switch.  placeOrder is called only when LIVE_TRADING_ENABLED is
\* true and the order service is not in dry-run mode; with the switch off
\* no cycle ever reaches placeOrder.
C11_KillSwitch ==
    Called("placeOrder") => (live_enabled /\ ~args.dry_run)

\* A live BUY that went to the broker and came back COMPLETE.
C11_Witness ==
    /\ pc = "done"
    /\ Called("placeOrder")
    /\ live_enabled
    /\ ~args.dry_run
    /\ args.signal = "BUY"
    /\ result.status = "COMPLETE"

\* ------------------------------------------------------------------------
\* Properties of the batch
\* ------------------------------------------------------------------------
ActiveSymbols ==
    LET act == active_stocks(batch.stocks)
    IN [i \in 1..Len(act) |-> act[i].trading_symbol]

\* C12: a batch run returns a list with exactly one entry per active
\* instrument, in order; no failure of one instrument removes the entries
\* of the others.
C12_OneEntryPerInstrument ==
    batch.stage # "idle"
        => /\ batch.stage = "returned"
           /\ Len(batch.results) = Len(ActiveSymbols)
           /\ \A i \in 1..Len(batch.results) :
                batch.results[i].symbol = ActiveSymbols[i]

\* C13: within one batch run the login is performed exactly once.
C13_LoginOnce ==
    batch.stage # "idle" => batch.logins = 1

\* ------------------------------------------------------------------------
\* Properties of the cycle
\* ------------------------------------------------------------------------
\* C14: every cycle ends by returning a result; no error, the absent
\* crossover timestamp included, leaves TradingEngine.run as an exception.
C14_CycleReturnsResult ==
    engine.stage # "raised"

\* ------------------------------------------------------------------------
\* Properties of the signal pipeline
\* ------------------------------------------------------------------------
PipelineRan ==
    /\ pipeline.stage = "output"
    /\ pipeline.kind = "candles"
    /\ pipeline.out.error = Null

CrossoverRows ==
    {t \in 1..Len(pipeline.out.candles) : pipeline.out.candles[t].crossover}

LastCrossoverRow == CHOOSE t \in CrossoverRows : \A u \in CrossoverRows : u <= t

DirectionSignal(t) == IF pipeline.out.candles[t].diff > 0 THEN "BUY" ELSE "SELL"

\* C15 as stated: when the series has a crossover, the signal is BUY or SELL
\* after the direction of the last one, wherever it lies in the series.
C15_SignalFromLastCrossover ==
    (PipelineRan /\ force_signal = Null /\ CrossoverRows # {})
        => pipeline.out.signal = DirectionSignal(LastCrossoverRow)

\* TradingEngine.run has returned a dict (the view may have answered
\* since).
RunReturned == engine.stage \in {"returned", "responded"}

\* C16: a candle series of length below 2, the empty one included, ends
\* the cycle with the pipeline's insufficient-data error: no signal, no
\* SignalLog row, no call of place_order.
C16_ShortSeriesIsError ==
    (engine.fetch = "ok" /\ engine.series_len < 2)
        => /\ RunReturned
           /\ engine.status = "PIPELINE_ERROR"
           /\ engine.details \in
                {"Not enough candles for crossover detection",
                 "Candle Fetch Error: Empty candle data received"}
           /\ engine.signal_data.signal = Null
           /\ ~engine.signal_log.created
           /\ pc = "idle"
           /\ hist.calls = << >>

\* A single candle reached the pipeline.
C16_Witness ==
    /\ engine.fetch = "ok"
    /\ engine.series_len = 1
    /\ engine.stage = "returned"
    /\ engine.status = "PIPELINE_ERROR"
    /\ engine.details = "Not enough candles for crossover detection"

C17_Closes == <<10, 10, 10, 10, 20, 20, 20>>

C17_Input ==
    /\ pipeline.stage = "output"
    /\ pipeline.kind = "candles"
    /\ pipeline.resp.status
    /\ pipeline.resp.data = candles_of(C17_Closes)
    /\ pipeline.strategy.short_span = 2
    /\ pipeline.strategy.long_span = 4
    /\ pipeline.strategy.candle_count >= Len(C17_Closes)

\* C17: closes 10, 10, 10, 10, 20, 20, 20 with spans 2 and 4 give exactly
\* one crossover, on the candle where the close jumps to 20 (the fifth, index
\* 4 counted from 0), and its direction is UP.
C17_SingleUpCrossover ==
    C17_Input
        => /\ pipeline.out.error = Null
           /\ CrossoverRows = {5}
           /\ pipeline.out.candles[5].close = 20
           /\ pipeline.out.candles[4].close = 10
           /\ pipeline.out.candles[5].diff > 0
           /\ pipeline.out.crossover_timestamp = "T5"

C17_Witness ==
    /\ C17_Input
    /\ CrossoverRows = {5}
    /\ pipeline.out.candles[5].diff > 0

SameSign(diff) ==
    \/ \A t \in 1..Len(diff) : diff[t] > 0
    \/ \A t \in 1..Len(diff) : diff[t] < 0

\* C18: on a diff column whose values are all strictly positive, or all
\* strictly negative, the detection flags no row, reports no last crossover
\* and gives the signal NONE.
C18_NoSignChangeNoCrossover ==
    (pipeline.stage = "output" /\ pipeline.kind = "diff" /\ SameSign(pipeline.diff))
        => /\ \A t \in 1..Len(pipeline.diff) : ~pipeline.found.crossover[t]
           /\ pipeline.found.crossover_timestamp = Null
           /\ pipeline.found.signal = "NONE"

\* A column of three positive diffs of different sizes.
C18_Witness ==
    /\ pipeline.stage = "output"
    /\ pipeline.kind = "diff"
    /\ pipeline.diff = <<1, 2, 1>>
    /\ pipeline.found.crossover = <<FALSE, FALSE, FALSE>>
    /\ pipeline.found.signal = "NONE"

\* ------------------------------------------------------------------------
\* Properties of the freshness gate
\* ------------------------------------------------------------------------
GateLimit == engine.now - engine.strategy.signal_validity_minutes

\* The cycle logged a BUY or SELL signal and stands after the freshness
\* check.
AtGate ==
    /\ engine.stage \in {"returned", "execute"}
    /\ engine.signal_log.created
    /\ engine.signal_data.signal \in {"BUY", "SELL"}

NoExecution == pc = "idle" /\ hist.calls = << >> /\ result = NoResult

\* The cycle found a crossover in the series, logged its signal and stands
\* after the freshness check.
CrossoverAtGate ==
    /\ engine.stage \in {"returned", "execute"}
    /\ engine.signal_log.created
    /\ engine.candle_dt # NoTime

\* C19: a crossover timestamped exactly at now - validity goes on to
\* place_order; one a minute older ends the cycle with STALE_SIGNAL and
\* without execution.
C19_FreshnessInclusive ==
    CrossoverAtGate
        => /\ engine.candle_dt = GateLimit => engine.stage = "execute"
           /\ engine.candle_dt = GateLimit - 1
                => /\ engine.stage = "returned"
                   /\ engine.order_result.status = "STALE_SIGNAL"
                   /\ NoExecution

\* C20: a series with a crossover older than the validity window ends the
\* cycle with STALE_SIGNAL, and a series without any crossover ends it with
\* the no-fresh-crossover reason.
C20_StaleAndAbsentDistinguished ==
    (/\ engine.stage \in {"returned", "raised"}
     /\ engine.fetch = "ok"
     /\ engine.signal_data.timestamp # Null)
        => /\ engine.signal_data.crossover_timestamp = Null
                => /\ engine.stage = "returned"
                   /\ engine.order_result.status = "SKIPPED"
                   /\ engine.order_result.reason = "No fresh crossover"
           /\ (/\ engine.signal_data.crossover_timestamp # Null
               /\ parse_datetime(engine.signal_data.crossover_timestamp) < GateLimit)
                => /\ engine.stage = "returned"
                   /\ engine.order_result.status = "STALE_SIGNAL"

\* ------------------------------------------------------------------------
\* Properties of the execution record and of the ledger
\* ------------------------------------------------------------------------
\* C21: the SignalLog row of a cycle is created with executed = FALSE and
\* carries executed = TRUE at the end of the cycle exactly when the order
\* of the cycle came back COMPLETE.
C21_ExecutedOnceComplete ==
    (engine.stage = "returned" /\ engine.signal_log.created)
        => (engine.signal_log.executed <=> engine.order_result.status = "COMPLETE")

\* The position of symbol s changes in this step.
PositionChanges(s) == Positions(trade_state')[s] # Positions(trade_state)[s]

\* The step is a reconciliation whose position query succeeded, and it
\* leaves the ledger of the traded symbol at the broker's position.
ReconciliationStep(s) ==
    /\ pc = "sync"
    /\ s = args.trading_symbol
    /\ hist'.sync = "ok"
    /\ Positions(trade_state')[s] = IF hist'.reported_long THEN "LONG" ELSE "NONE"

\* The step is the poll of a submitted order that the order book lists as
\* COMPLETE.
CompletionStep(s) ==
    /\ pc = "poll"
    /\ s = args.trading_symbol
    /\ hist'.poll = "ok"
    /\ hist'.polled = "COMPLETE"
    /\ Positions(trade_state')[s] = IF args.signal = "BUY" THEN "LONG" ELSE "NONE"

\* C22: over every sequence of cycles the position of a ledger entry
\* changes only in a successful reconciliation that found the broker at
\* another position, or when the submitted order is confirmed COMPLETE; no
\* other step changes it (a symbol without a row counts as NONE, the value
\* its row is created with).
C22_PositionFrame ==
    [][\A s \in Symbols :
            PositionChanges(s) => (ReconciliationStep(s) \/ CompletionStep(s))]_vars

\* Both places in one cycle: the reconciliation raised the ledger from
\* NONE to LONG, then the SELL confirmed COMPLETE took it back to NONE.
C22_Witness ==
    /\ pc = "done"
    /\ args.signal = "SELL"
    /\ hist.polled = "COMPLETE"
    /\ Positions(hist.at_check)[args.trading_symbol] = "LONG"
    /\ Positions(trade_state)[args.trading_symbol] = "NONE"
    /\ Positions(hist.entry)[args.trading_symbol] = "NONE"

\* C23: after a reconciliation whose position query succeeded, the ledger
\* row of the traded symbol exists and its position is the broker's: LONG
\* iff the broker lists the symbol with a positive net quantity, NONE
\* otherwise; the rows of the other symbols are as they were, and the cycle
\* goes on to the checks.
C23_SyncMatchesBroker ==
    (pc = "check" /\ hist.sync = "ok")
        => /\ trade_state[args.trading_symbol].exists
           /\ trade_state[args.trading_symbol].position =
                IF hist.reported_long THEN "LONG" ELSE "NONE"
           /\ \A s \in Symbols \ {args.trading_symbol} :
                trade_state[s] = hist.entry[s]

\* The ledger said LONG, the broker does not list the symbol with a
\* positive quantity: the ledger is overwritten with NONE.
C23_Witness ==
    /\ pc = "check"
    /\ hist.sync = "ok"
    /\ ~hist.reported_long
    /\ hist.entry[args.trading_symbol].position = "LONG"
    /\ trade_state[args.trading_symbol].position = "NONE"

\* ------------------------------------------------------------------------
\* Properties of the order of the steps of place_order
\* ------------------------------------------------------------------------
TradeSignal == args.signal \in {"BUY", "SELL"}

\* The duplicate-direction checks were evaluated and let the order through.
PassedChecks ==
    /\ TradeSignal
    /\ args.quantity > 0
    /\ current_position # Null
    /\ ~(args.signal = "BUY" /\ current_position = "LONG")
    /\ ~(args.signal = "SELL" /\ current_position = "NONE")

\* C24 as stated: a cycle with a BUY or SELL signal always enters the
\* reconciliation, before any safety verdict.
C24_ReconciliationFirst ==
    (pc = "done" /\ TradeSignal)
        => /\ hist.calls # << >>
           /\ hist.calls[1] = "position"

\* C24 amended: the quantity check comes first and blocks a non-positive
\* quantity without any broker call; with a positive quantity the
\* reconciliation is entered before the position checks are evaluated, and
\* the position checks are passed before placeOrder is called.
C24_OrderOfSteps ==
    (pc # "idle" /\ TradeSignal)
        => /\ args.quantity <= 0
                => /\ pc = "done"
                   /\ result.status = "BLOCKED"
                   /\ result.reason = "Invalid quantity"
                   /\ hist.calls = << >>
           /\ args.quantity > 0
                => /\ pc = "sync" => (hist.calls = << >> /\ result = NoResult)
                   /\ pc # "sync" => (hist.calls # << >> /\ hist.calls[1] = "position")
                   /\ pc \in {"sync", "check"} => current_position = Null
                   /\ result.status = "BLOCKED" => hist.calls = <<"position">>
                   /\ Called("placeOrder")
                        => /\ hist.calls[2] = "placeOrder"
                           /\ PassedChecks

\* A BUY blocked as already long after a reconciliation whose position
\* query raised.
C24_Witness ==
    /\ pc = "done"
    /\ args.signal = "BUY"
    /\ args.quantity > 0
    /\ hist.sync = "raise"
    /\ hist.calls = <<"position">>
    /\ result.status = "BLOCKED"
    /\ result.reason = "Already LONG"

\* C25 as stated: with the switch off, every BUY or SELL attempt that
\* passes the safety checks returns DISABLED.
C25_DisabledWhenNotLive ==
    (pc = "done" /\ ~live_enabled /\ PassedChecks)
        => /\ result.status = "DISABLED"
           /\ ~Called("placeOrder")

\* C25 amended: with the switch off, an attempt that passes the safety
\* checks never reaches placeOrder; it returns DRY_RUN when the order
\* service is in dry-run mode (the dry-run test comes first) and DISABLED
\* otherwise; an attempt that trips a safety rule returns BLOCKED.
C25_DisabledAfterDryRun ==
    (pc = "done" /\ ~live_enabled /\ TradeSignal)
        => /\ ~Called("placeOrder")
           /\ PassedChecks
                => result.status = IF args.dry_run THEN "DRY_RUN" ELSE "DISABLED"
           /\ ~PassedChecks => result.status = "BLOCKED"

\* A live-mode SELL of a LONG position stopped by the switch.
C25_Witness ==
    /\ pc = "done"
    /\ ~live_enabled
    /\ ~args.dry_run
    /\ args.signal = "SELL"
    /\ current_position = "LONG"
    /\ result.status = "DISABLED"
    /\ result.reason = "Live trading disabled in settings"
    /\ hist.calls = <<"position">>

\* C30: a SELL while the ledger position read after the reconciliation is
\* NONE is BLOCKED with the reason "No position to close" and never reaches
\* placeOrder; a SELL goes to the broker only from a LONG position.
C30_SellWithoutPositionBlocked ==
    /\ (args.signal = "SELL" /\ current_position = "NONE")
            => /\ pc = "done"
               /\ result.status = "BLOCKED"
               /\ result.reason = "No position to close"
               /\ ~Called("placeOrder")
    /\ (args.signal = "SELL" /\ Called("placeOrder"))
            => current_position = "LONG"

\* A live SELL replayed after an earlier SELL was completed.
C30_Witness ==
    /\ pc = "done"
    /\ args.signal = "SELL"
    /\ ~args.dry_run
    /\ live_enabled
    /\ hist.entry[args.trading_symbol].exists
    /\ hist.entry[args.trading_symbol].last_signal = "SELL"
    /\ current_position = "NONE"
    /\ result.status = "BLOCKED"
    /\ result.reason = "No position to close"

\* ------------------------------------------------------------------------
\* Properties of the signal rule and of the crossover column
\* ------------------------------------------------------------------------
LastCandle == pipeline.out.candles[Len(pipeline.out.candles)]

\* C26 as stated: the pipeline returns BUY or SELL only if the last candle
\* of the series is a crossover, and NONE for every series whose last
\* candle is not one.
C26_SignalOnlyOnLatestCandle ==
    PipelineRan
        => /\ pipeline.out.signal \in {"BUY", "SELL"} => LastCandle.crossover
           /\ ~LastCandle.crossover => pipeline.out.signal = "NONE"

\* C26 amended: without the FORCE_SIGNAL override the signal is BUY or SELL
\* (after the sign of the diff) exactly when the last candle is a
\* crossover and NONE otherwise; with the override set to BUY or SELL the
\* returned signal is the forced one, whatever the last candle is.
C26_StrictUnlessForced ==
    PipelineRan
        => /\ force_signal = Null
                => pipeline.out.signal =
                        IF LastCandle.crossover
                        THEN DirectionSignal(Len(pipeline.out.candles))
                        ELSE "NONE"
           /\ force_signal # Null => pipeline.out.signal = force_signal

\* A forced BUY on a series whose last candle is no crossover.
C26_Witness ==
    /\ PipelineRan
    /\ force_signal = "BUY"
    /\ Len(pipeline.out.candles) = 3
    /\ ~LastCandle.crossover
    /\ pipeline.out.signal = "BUY"

Sign(x) == IF x > 0 THEN 1 ELSE IF x < 0 THEN 0 - 1 ELSE 0

DetectionRan == pipeline.stage = "output" /\ pipeline.kind = "diff"

\* C27: row t of a diff column is flagged as a crossover exactly when it is
\* not the first row, the sign of its diff differs from the sign of the
\* diff of the row before, and its diff is not 0; a flagged last row gives
\* BUY (UP) when its diff is positive and SELL (DOWN) when it is negative.
C27_CrossoverIffSignChange ==
    DetectionRan
        => /\ \A t \in 1..Len(pipeline.diff) :
                pipeline.found.crossover[t]
                    <=> /\ t > 1
                        /\ Sign(pipeline.diff[t]) # Sign(pipeline.diff[t - 1])
                        /\ pipeline.diff[t] # 0
           /\ pipeline.found.crossover[Len(pipeline.diff)]
                => pipeline.found.signal =
                        IF pipeline.diff[Len(pipeline.diff)] > 0 THEN "BUY"
                        ELSE "SELL"

\* The diff falls to 0 and then below it: only the third row is flagged,
\* as a DOWN crossover.
C27_Witness ==
    /\ DetectionRan
    /\ pipeline.diff = <<1, 0, -1>>
    /\ pipeline.found.crossover = <<FALSE, FALSE, TRUE>>
    /\ pipeline.found.signal = "SELL"

\* ------------------------------------------------------------------------
\* Properties of the engine's input checks
\* ------------------------------------------------------------------------
\* C28: a cycle goes on to place_order only with a crossover timestamp
\* inside [now - validity, now]; a crossover timestamped later than now does
\* not reach execution.
C28_FutureCrossoverNotActionable ==
    engine.stage = "execute"
        => /\ GateLimit <= engine.candle_dt
           /\ engine.candle_dt <= engine.now

InvalidWindows(strategy) ==
    ~(0 < strategy.short_span /\ strategy.short_span < strategy.long_span)

\* C29: a cycle whose strategy has a short window that is not strictly
\* smaller than the long one ends with an error status, with no signal
\* logged and no execution, whatever the candle series.
C29_InvalidWindowsRejected ==
    (engine.strategy # NoStrategy /\ InvalidWindows(engine.strategy))
        => /\ RunReturned
           /\ engine.status # Null
           /\ ~engine.signal_log.created
           /\ NoExecution

\* ------------------------------------------------------------------------
\* Properties of the local checks and of the broker calls of one cycle
\* ------------------------------------------------------------------------
\* C31: a BUY or SELL with a quantity that is not positive ends BLOCKED
\* with the reason "Invalid quantity", with no broker call at all and the
\* ledger as it was; and whenever a cycle ends BLOCKED, by the quantity
\* check or by a position check, the only broker call it can have made is
\* the position query of the reconciliation.
C31_InvalidQuantityBlocked ==
    /\ (pc # "idle" /\ TradeSignal /\ args.quantity <= 0)
            => /\ pc = "done"
               /\ result.status = "BLOCKED"
               /\ result.reason = "Invalid quantity"
               /\ hist.calls = << >>
               /\ trade_state = hist.entry
    /\ result.status = "BLOCKED"
            => /\ ~Called("placeOrder")
               /\ ~Called("orderBook")
               /\ Len(hist.calls) <= 1

\* A SELL of quantity 0 while the ledger holds a LONG position.
C31_Witness ==
    /\ pc = "done"
    /\ args.signal = "SELL"
    /\ args.quantity = 0
    /\ hist.entry[args.trading_symbol].position = "LONG"
    /\ trade_state[args.trading_symbol].position = "LONG"
    /\ result.status = "BLOCKED"
    /\ result.reason = "Invalid quantity"

\* Number of times the call named name occurs in the sequence calls.
Count(calls, name) == Cardinality({i \in 1..Len(calls) : calls[i] = name})

\* C32: inside one cycle the candle fetch, the position query, the order
\* submission and the order-status poll are each made at most once,
\* whatever they answered; a call that failed is followed by no call at all
\* in the same cycle; at most one order is submitted.
C32_NoRetryInCycle ==
    /\ \A name \in {"login", "getCandleData", "rmsLimit"} :
            Count(engine.calls, name) <= 1
    /\ \A name \in {"position", "placeOrder", "orderBook"} :
            Count(hist.calls, name) <= 1
    /\ engine.fetch \in {"raise", "fail"}
            => /\ RunReturned
               /\ NoExecution
    /\ (Called("placeOrder") /\ hist.accepted = Null)
            => /\ pc = "done"
               /\ ~Called("orderBook")
    /\ hist.poll = "raise" => pc = "done"

\* A cycle whose order was accepted and whose poll raised: one call of each
\* kind, and the cycle is over.
C32_Witness ==
    /\ engine.stage = "executing"
    /\ engine.calls = <<"login", "getCandleData">>
    /\ hist.calls = <<"position", "placeOrder", "orderBook">>
    /\ hist.sync = "raise"
    /\ hist.poll = "raise"
    /\ pc = "done"
    /\ result.status = "ERROR"

\* C33: a BUY order goes to the broker only after the margin query
\* (rmsLimit) of the cycle was made, and so only with enough cash reported.
C33_MarginBeforeBuy ==
    (args.signal = "BUY" /\ Called("placeOrder")) => Called("rmsLimit")

\* ------------------------------------------------------------------------
\* Properties of the candle frame
\* ------------------------------------------------------------------------
\* The frame of a raw list is handed to the crossover detection.
FrameHanded ==
    /\ pipeline.stage = "output"
    /\ pipeline.kind = "raw"
    /\ ~not_enough_candles(pipeline.df)

\* C35: the frame handed to the crossover detection is, for every raw
\* candle list, in ascending order of timestamp and holds no timestamp
\* twice.
C35_AscendingNoDuplicates ==
    FrameHanded
        => \A i \in 1..(Len(pipeline.df) - 1) :
                pipeline.df[i].timestamp < pipeline.df[i + 1].timestamp

\* ------------------------------------------------------------------------
\* Properties of the ledger over sequences of cycles
\* ------------------------------------------------------------------------
\* C37: in every reachable state every ledger row holds NONE or LONG; a row
\* made by the cycle without a successful reconciliation holds NONE; after
\* a successful reconciliation the row holds LONG when the broker listed
\* the symbol with a positive net quantity and NONE when it listed it with
\* a zero or negative one or not at all; a completed order has written
\* LONG (BUY) or NONE (SELL).
C37_PositionDomain ==
    /\ \A s \in Symbols : trade_state[s].position \in {"NONE", "LONG"}
    /\ \A s \in Symbols : ~trade_state[s].exists => trade_state[s].position = "NONE"
    /\ (pc \in {"submit", "poll"} /\ ~hist.entry[args.trading_symbol].exists
            /\ hist.sync # "ok")
            => /\ trade_state[args.trading_symbol].exists
               /\ trade_state[args.trading_symbol].position = "NONE"
    /\ (pc = "check" /\ hist.sync = "ok")
            => trade_state[args.trading_symbol].position =
                    IF hist.reported_long THEN "LONG" ELSE "NONE"
    /\ (pc = "done" /\ hist.poll = "ok" /\ hist.polled = "COMPLETE")
            => trade_state[args.trading_symbol].position =
                    IF args.signal = "BUY" THEN "LONG" ELSE "NONE"

\* The broker lists the symbol short (no positive net quantity) while the
\* ledger held LONG: the reconciliation has put the row back to NONE.
C37_Witness ==
    /\ pc = "check"
    /\ hist.sync = "ok"
    /\ ~hist.reported_long
    /\ hist.entry[args.trading_symbol].position = "LONG"
    /\ trade_state[args.trading_symbol].position = "NONE"

\* ------------------------------------------------------------------------
\* Properties of the forced signal and of the request mode
\* ------------------------------------------------------------------------
\* C38: with FORCE_SIGNAL set to BUY or SELL the cycle trades the forced
\* signal, and only through the same gates: it goes on to place_order only
\* with a last crossover whose timestamp is not older than the validity
\* window (an older one ends STALE_SIGNAL without execution); place_order
\* reconciles before anything else; a forced BUY on a LONG position and a
\* forced SELL on none are BLOCKED; an order is submitted only in a non-dry
\* run with the kill switch on.
C38_ForcedSignalKeepsGates ==
    force_signal # Null
        => /\ engine.stage = "execute"
                => /\ engine.signal_data.signal = force_signal
                   /\ engine.candle_dt # NoTime
                   /\ engine.candle_dt >= GateLimit
           /\ (AtGate /\ engine.candle_dt < GateLimit)
                => /\ engine.stage = "returned"
                   /\ engine.order_result.status = "STALE_SIGNAL"
                   /\ NoExecution
           /\ engine.stage = "executing"
                => /\ args.signal = force_signal
                   /\ hist.calls # << >> => hist.calls[1] = "position"
                   /\ (current_position # Null
                        /\ safety_block(args.signal, current_position) # Null)
                        => /\ pc = "done"
                           /\ result.status = "BLOCKED"
                           /\ ~Called("placeOrder")
                   /\ Called("placeOrder")
                        => /\ ~engine.dry_run
                           /\ live_enabled
                           /\ engine.mode = "live"

\* A forced BUY that passed the freshness gate while the ledger, after the
\* reconciliation, holds LONG.
C38_Witness ==
    /\ force_signal = "BUY"
    /\ engine.stage = "executing"
    /\ pc = "done"
    /\ hist.sync = "ok"
    /\ current_position = "LONG"
    /\ result.status = "BLOCKED"
    /\ result.reason = "Already LONG"

\* C39: a cycle started through engine_run_api runs non-dry exactly when
\* the mode of the request is "live" and LIVE_TRADING_ENABLED is true; a
\* "live" request with the switch off, and a request of any other mode, run
\* dry: an attempt that passes the checks ends DRY_RUN, no cycle ends
\* DISABLED, and nothing is submitted.
C39_TriggerForcesDryRun ==
    /\ engine.stage # "idle"
            => engine.dry_run = ~(engine.mode = "live" /\ live_enabled)
    /\ result.status # "DISABLED"
    /\ engine.order_result.status # "DISABLED"
    /\ (engine.stage = "executing" /\ pc = "done" /\ PassedChecks
            /\ ~(engine.mode = "live" /\ live_enabled))
            => result.status = "DRY_RUN"
    /\ Called("placeOrder") => (engine.mode = "live" /\ live_enabled)

\* A "live" request while the switch is off, with an order that passed the
\* checks.
C39_Witness ==
    /\ engine.stage = "executing"
    /\ engine.mode = "live"
    /\ ~live_enabled
    /\ pc = "done"
    /\ PassedChecks
    /\ result.status = "DRY_RUN"
    /\ hist.calls = <<"position">>

\* ------------------------------------------------------------------------
\* Properties of the cycles that end before execution
\* ------------------------------------------------------------------------
\* The step runs a cycle that ends before place_order: login failure,
\* missing strategy, pipeline error, exception, signal NONE or stale signal.
EarlyEndStep ==
    /\ engine.stage \in {"login", "run"}
    /\ engine'.stage \in {"returned", "raised", "login_error"}

\* C40: a cycle that ends before execution makes no position query and no
\* order submission and leaves every ledger row as it was, also when its
\* response is handed back; place_order is entered only from a cycle that
\* logged a BUY or SELL signal whose crossover is not older than the
\* validity window.
C40_EarlyEndTouchesNothing ==
    [][/\ EarlyEndStep
            => /\ trade_state' = trade_state
               /\ hist'.calls = << >>
               /\ pc' = "idle"
               /\ result' = NoResult
               /\ engine'.stage = "returned"
                    => \/ engine'.status \in {"CONFIG_ERROR", "PIPELINE_ERROR"}
                       \/ engine'.order_result.status \in {"SKIPPED", "STALE_SIGNAL"}
       /\ engine.stage \in {"returned", "responded", "raised", "login_error"}
            => trade_state' = trade_state
       /\ (pc = "idle" /\ pc' # "idle")
            => /\ engine.stage = "execute"
               /\ engine.signal_log.created
               /\ engine.signal_data.signal \in {"BUY", "SELL"}
               /\ engine.candle_dt >= GateLimit]_vars

\* A stale-signal cycle that came after a cycle which left the ledger LONG.
C40_Witness ==
    /\ engine.stage = "returned"
    /\ engine.order_result.status = "STALE_SIGNAL"
    /\ NoExecution
    /\ trade_state[ActiveStock].position = "LONG"

\* ------------------------------------------------------------------------
\* Properties of overlapping cycles
\* ------------------------------------------------------------------------
RivalCalled(name) == \E i \in 1..Len(rival.calls) : rival.calls[i] = name

\* C34: two cycles for the same instrument that are in flight at the same
\* time never both read the position NONE and both submit a BUY order.
C34_NoConcurrentDoubleBuy ==
    ~ /\ args.trading_symbol = ActiveStock
      /\ args.signal = "BUY"
      /\ rival.signal = "BUY"
      /\ current_position = "NONE"
      /\ rival.current_position = "NONE"
      /\ Called("placeOrder")
      /\ RivalCalled("placeOrder")

\* ------------------------------------------------------------------------
\* Properties of the orders the broker fills
\* ------------------------------------------------------------------------
\* The sides alternate, starting with BUY.
Alternates(sides) ==
    \A i \in 1..Len(sides) : sides[i] = IF i % 2 = 1 THEN "BUY" ELSE "SELL"

\* C36 as stated: with a broker whose position queries succeed and report
\* the orders it has filled, the orders filled for the instrument alternate
\* BUY, SELL, BUY, ..., starting with BUY, over every sequence of sequential
\* live cycles and signals.
C36_CompletedOrdersAlternate == Alternates(broker.completed)

====
